---- MODULE Spec2Model ----
(***************************************************************************)
(* A model of the real-iop-estimator core: the input validator             *)
(* (validation.py), the calculator and its eight estimators                *)
(* (iop_calculator.py, *_iop.py, statistics.py), the interpretation rules  *)
(* (interpretation.py) and the entry point that chains them (app_main.py). *)
(*                                                                         *)
(* Numbers.  A pressure is a Python float, an IEEE 754 binary64 number:    *)
(* a record [c, s, m, e] of its class ("fin", "inf" or "nan"), its sign,   *)
(* its significand (a natural number below 2^53) and its exponent, of      *)
(* value (-1)^s * m * 2^e.  Every operation rounds its exact result to the *)
(* nearest float, ties to the even significand, as the hardware does.      *)
(*                                                                         *)
(* Text.  A string is the sequence of the code points of its characters.   *)
(***************************************************************************)
EXTENDS Integers, Sequences, FiniteSets, TLC, Bags

VARIABLES
    python,             \* the interpreter that runs the program
    iop_input,          \* app_main.main: the text of the input field
    calculate_button,   \* app_main.main: TRUE iff the button was clicked
    pc,                 \* position of main()
    measurements,       \* main: the list validate_measurements returned
    calc_measurements,  \* IOPCalculator.measurements (self.measurements)
    calc_n,             \* IOPCalculator.n
    results,            \* main: the dict calculate_all returned
    interpretation,     \* main: calculator.interpret_iop(results['safe_iop'])
    confidence,         \* main: calculator.get_confidence_note()
    error,              \* main: what is reported in place of results, the
                        \* ValueError caught or the request to enter
                        \* measurements; NoError if none
    displayed,          \* what the page shows at the end of the run
    arg,                \* argument of a direct call of a pure function
    returned            \* per method of the calculator, the values its calls returned

vars == <<python, iop_input, calculate_button, pc, measurements,
          calc_measurements, calc_n, results, interpretation, confidence, error,
          displayed, arg, returned>>

----------------------------------------------------------------------------
(* config.py *)

MIN_MEASUREMENTS == 3
MIN_IOP_VALUE == 0
MAX_IOP_VALUE == 100

----------------------------------------------------------------------------
(* Natural numbers of any size: sequences of base-2^15 digits, least       *)
(* significant first, without a leading zero digit; zero is <<>>.          *)

Abs(x) == IF x < 0 THEN -x ELSE x
Max(a, b) == IF a >= b THEN a ELSE b
Min(a, b) == IF a <= b THEN a ELSE b

Base == 2^15
BaseBits == 15

RECURSIVE Big(_)
Big(n) == IF n = 0 THEN <<>> ELSE <<n % Base>> \o Big(n \div Base)

RECURSIVE BigToInt(_)
BigToInt(a) == IF a = <<>> THEN 0 ELSE a[1] + Base * BigToInt(Tail(a))

\* the least and the greatest element of a non-empty set of integers
Least(S) == CHOOSE i \in S : \A j \in S : i <= j
Greatest(S) == CHOOSE i \in S : \A j \in S : i >= j

\* the sum of the values of a function f of naturals: the number of
\* elements of the bag with f[i] + 1 copies of every i, less one for every i
Sigma(f) == BagCardinality([i \in DOMAIN f |-> f[i] + 1]) - Cardinality(DOMAIN f)

\* a without its leading zero digits
BigNorm(a) ==
    LET nz == {i \in 1..Len(a) : a[i] # 0}
    IN  IF nz = {} THEN <<>> ELSE SubSeq(a, 1, Greatest(nz))

Zeros(n) == [i \in 1..n |-> 0]

\* a + b.  The carry into the digit i comes from the nearest digit below it
\* whose sum is not Base - 1: it is 1 iff that sum is Base or more.
BigAdd(a, b) ==
    LET n     == Max(Len(a), Len(b))
        s     == SubSeq([i \in 1..n |-> (IF i <= Len(a) THEN a[i] ELSE 0)
                                        + (IF i <= Len(b) THEN b[i] ELSE 0)], 1, n)
        c(i)  == LET J == {j \in 1..(i - 1) : s[j] # Base - 1}
                 IN  IF J # {} /\ s[Greatest(J)] >= Base THEN 1 ELSE 0
    IN  BigNorm(SubSeq([i \in 1..(n + 1) |-> IF i <= n THEN (s[i] + c(i)) % Base ELSE c(i)],
                       1, n + 1))

\* a - b for a >= b.  The borrow from the digit i goes to the nearest digit
\* below it where the two numbers differ: it is 1 iff a has the smaller digit.
BigSub(a, b) ==
    LET d     == SubSeq([i \in 1..Len(a) |-> a[i] - (IF i <= Len(b) THEN b[i] ELSE 0)],
                        1, Len(a))
        c(i)  == LET J == {j \in 1..(i - 1) : d[j] # 0}
                 IN  IF J # {} /\ d[Greatest(J)] < 0 THEN 1 ELSE 0
    IN  BigNorm(SubSeq([i \in 1..Len(a) |-> (d[i] - c(i) + Base) % Base], 1, Len(a)))

\* a times one digit d: the low halves of the products a[i] * d, plus their
\* high halves one digit up
BigMulSmall(a, d) ==
    BigAdd(SubSeq([i \in 1..Len(a) |-> (a[i] * d) % Base], 1, Len(a)),
           <<0>> \o SubSeq([i \in 1..Len(a) |-> (a[i] * d) \div Base], 1, Len(a)))

\* a times b by columns: the digit k of the product collects the low halves
\* of the products a[i] * b[j] with i + j = k + 1 and the high halves of
\* those with i + j = k
BigMul(a, b) ==
    LET n      == Len(a) + Len(b)
        I(k)   == {i \in 1..Len(a) : 1 <= k + 1 - i /\ k + 1 - i <= Len(b)}
        lo(k)  == Sigma([i \in I(k) |-> (a[i] * b[k + 1 - i]) % Base])
        hi(k)  == Sigma([i \in I(k) |-> (a[i] * b[k + 1 - i]) \div Base])
        v      == SubSeq([k \in 1..n |-> lo(k) + (IF k = 1 THEN 0 ELSE hi(k - 1))], 1, n)
    IN  BigAdd(SubSeq([k \in 1..n |-> v[k] % Base], 1, n),
               <<0>> \o SubSeq([k \in 1..n |-> v[k] \div Base], 1, n))

\* -1, 0, 1 as a < b, a = b, a > b: decided by the highest digit that differs
BigCmp(a, b) ==
    IF Len(a) < Len(b) THEN -1
    ELSE IF Len(a) > Len(b) THEN 1
    ELSE LET differ == {i \in 1..Len(a) : a[i] # b[i]}
         IN  IF differ = {} THEN 0
             ELSE IF a[Greatest(differ)] < b[Greatest(differ)] THEN -1 ELSE 1

\* number of binary digits of a digit, of a natural
RECURSIVE Bits(_)
Bits(n) == IF n = 0 THEN 0 ELSE 1 + Bits(n \div 2)

BitLen(a) == IF a = <<>> THEN 0 ELSE BaseBits * (Len(a) - 1) + Bits(a[Len(a)])

\* the binary digit of weight 2^i
BitAt(a, i) ==
    IF (i \div BaseBits) + 1 > Len(a) THEN 0
    ELSE (a[(i \div BaseBits) + 1] \div (2^(i % BaseBits))) % 2

\* whether a is a multiple of 2^k
LowZero(a, k) ==
    /\ \A j \in 1..Min(k \div BaseBits, Len(a)) : a[j] = 0
    /\ (k \div BaseBits) + 1 <= Len(a) => a[(k \div BaseBits) + 1] % (2^(k % BaseBits)) = 0

\* a * 2^k: every digit moves up by k \div BaseBits places, leaves its low
\* bits there and its high bits one place further up
BigShl(a, k) ==
    LET r == k % BaseBits
        n == Len(a)
    IN  IF a = <<>> THEN <<>>
        ELSE Zeros(k \div BaseBits)
             \o BigNorm(SubSeq([i \in 1..(n + 1) |->
                                   (IF i <= n THEN (a[i] * (2^r)) % Base ELSE 0)
                                   + (IF i > 1 THEN (a[i - 1] * (2^r)) \div Base ELSE 0)],
                               1, n + 1))

\* floor(a / 2^k)
BigShr(a, k) ==
    LET q == k \div BaseBits
        r == k % BaseBits
        b == IF q >= Len(a) THEN <<>> ELSE SubSeq(a, q + 1, Len(a))
    IN  IF b = <<>> THEN <<>>
        ELSE BigNorm(SubSeq([i \in 1..Len(b) |->
                               (b[i] \div (2^r))
                               + (IF i < Len(b) THEN (b[i + 1] % (2^r)) * (2^(BaseBits - r))
                                  ELSE 0)],
                            1, Len(b)))

\* One step of the long division by b (whose leading digit is at least
\* Base / 2): the digit floor(r / b) for r < b * Base, estimated from the
\* leading digits and corrected downwards.
RECURSIVE DivDigitFrom(_, _, _)
DivDigitFrom(r, b, d) ==
    IF BigCmp(BigMulSmall(b, d), r) > 0 THEN DivDigitFrom(r, b, d - 1) ELSE d

DivDigit(r, b) ==
    LET n == Len(b)
    IN  IF Len(r) < n THEN 0
        ELSE DivDigitFrom(r, b,
                 Min(Base - 1,
                     ((IF Len(r) > n THEN r[n + 1] * Base ELSE 0) + r[n]) \div b[n]))

\* the digits a[i], ..., a[1] brought down one after the other: quotient q
\* so far, remainder r so far; r1 is the remainder with the digit brought
\* down and d the digit of the quotient it gives
RECURSIVE BigDivFrom(_, _, _, _, _)
BigDivDigit(a, b, i, q, r1, d) ==
    BigDivFrom(a, b, i - 1, <<d>> \o q,
               IF d = 0 THEN r1 ELSE BigSub(r1, BigMulSmall(b, d)))

BigDivDown(a, b, i, q, r1) == BigDivDigit(a, b, i, q, r1, DivDigit(r1, b))

BigDivFrom(a, b, i, q, r) ==
    IF i = 0 THEN [q |-> BigNorm(q), r |-> r]
    ELSE BigDivDown(a, b, i, q, BigNorm(<<a[i]>> \o r))

\* the division of as by bs, whose leading digit is at least Base / 2.  The
\* leading Len(bs) - 1 digits of as are the first remainder: they give no
\* digit of the quotient.
BigDivScaled(as, bs) ==
    LET i0 == Max(0, Len(as) - Len(bs) + 1)
    IN  BigDivFrom(as, bs, i0, <<>>, SubSeq(as, i0 + 1, Len(as)))

\* quotient and remainder of a by b # 0; the remainder is that of the
\* operands scaled by the same power of two, so it is zero iff a is a
\* multiple of b
BigDivMod(a, b) ==
    BigDivScaled(BigShl(a, BaseBits - Bits(b[Len(b)])),
                 BigShl(b, BaseBits - Bits(b[Len(b)])))

\* floor(sqrt(a)) by Newton's iteration from above: y is the step after x
RECURSIVE BigSqrtFrom(_, _)
BigSqrtStep(a, x, y) == IF BigCmp(y, x) >= 0 THEN x ELSE BigSqrtFrom(a, y)

BigSqrtFrom(a, x) == BigSqrtStep(a, x, BigShr(BigAdd(x, BigDivMod(a, x).q), 1))

BigSqrt(a) ==
    IF a = <<>> THEN <<>> ELSE BigSqrtFrom(a, BigShl(<<1>>, (BitLen(a) + 1) \div 2))

----------------------------------------------------------------------------
(* IEEE 754 binary64, the float of Python and the float64 of numpy.        *)
(* A finite float is (-1)^s * m * 2^e with m < 2^53, written in the one    *)
(* way with m >= 2^52 (normal) or e = -1074 (subnormal); zero has m = <<>> *)
(* and e = 0.  Every operation returns the float nearest to the exact      *)
(* result, the one with an even m when two are equally near.               *)

MantBits == 53
MinExp == -1074
MaxExp == 971

Fin(s, m, e) == [c |-> "fin", s |-> s, m |-> m, e |-> e]
FZero(s) == Fin(s, <<>>, 0)
FInf(s) == [c |-> "inf", s |-> s, m |-> <<>>, e |-> 0]
FNaN == [c |-> "nan", s |-> 0, m |-> <<>>, e |-> 0]

FIsNaN(x) == x.c = "nan"
FIsInf(x) == x.c = "inf"
FIsZero(x) == x.c = "fin" /\ x.m = <<>>

\* the float with mantissa m at exponent e, m having at most 53 bits
Pack(s, m, e) ==
    IF m = <<>> THEN FZero(s)
    ELSE IF BitLen(m) > MantBits
         THEN (IF e + 1 > MaxExp THEN FInf(s) ELSE Fin(s, BigShr(m, 1), e + 1))
    ELSE IF e > MaxExp THEN FInf(s)
    ELSE Fin(s, m, e)

\* m0 or m0 + 1
BigRoundUp(m0, up) == IF up THEN BigAdd(m0, <<1>>) ELSE m0

\* the integer nearest to (q + d) / 2^sh for sh > 0, the even one of two
\* equally near, where d is 0 if ~sticky and some 0 < d < 1 otherwise
BigShrNearest(q, sticky, sh) ==
    BigRoundUp(BigShr(q, sh),
               /\ BitAt(q, sh - 1) = 1
               /\ (sticky \/ ~LowZero(q, sh - 1) \/ BitAt(q, sh) = 1))

\* the same for the exponent e1 >= MinExp at which q has at most 53 bits
RoundAt(s, q, sticky, e, e1) ==
    Pack(s, IF e1 <= e THEN BigShl(q, e - e1) ELSE BigShrNearest(q, sticky, e1 - e), e1)

\* the float nearest to (-1)^s * (q + d) * 2^e, where d is 0 if ~sticky and
\* some 0 < d < 1 otherwise (q then has at least 55 bits)
RoundSticky(s, q, sticky, e) ==
    IF q = <<>> THEN FZero(s)
    ELSE RoundAt(s, q, sticky, e, Max(e + BitLen(q) - MantBits, MinExp))

\* the float nearest to (-1)^s * (qr.q + qr.r / Q) * 2^e
FromQuotient(s, qr, e) == RoundSticky(s, qr.q, qr.r # <<>>, e)

\* the float nearest to (-1)^s * (P / Q) * 2^e: the quotient is taken of
\* P * 2^k, for the k that gives it 56 bits or more
RatioShift(P, Q) ==
    IF BitLen(P) - BitLen(Q) >= MantBits + 3 THEN 0
    ELSE MantBits + 3 - (BitLen(P) - BitLen(Q))

FromRatio(s, P, Q, e) ==
    IF P = <<>> THEN FZero(s)
    ELSE FromQuotient(s, BigDivMod(BigShl(P, RatioShift(P, Q)), Q), e - RatioShift(P, Q))

\* float(k) of an integer k
FromInt(k) == RoundSticky(IF k < 0 THEN 1 ELSE 0, Big(Abs(k)), FALSE, 0)

FNeg(x) == IF FIsNaN(x) THEN x ELSE [x EXCEPT !.s = 1 - x.s]
FAbs(x) == IF FIsNaN(x) THEN x ELSE [x EXCEPT !.s = 0]

\* -1, 0, 1 as |x| < |y|, |x| = |y|, |x| > |y|  (neither is NaN)
MagCmp(x, y) ==
    IF FIsInf(x) \/ FIsInf(y)
    THEN (IF FIsInf(x) /\ FIsInf(y) THEN 0 ELSE IF FIsInf(x) THEN 1 ELSE -1)
    ELSE IF FIsZero(x) \/ FIsZero(y)
    THEN (IF FIsZero(x) /\ FIsZero(y) THEN 0 ELSE IF FIsZero(x) THEN -1 ELSE 1)
    ELSE IF x.e # y.e THEN (IF x.e < y.e THEN -1 ELSE 1)
    ELSE BigCmp(x.m, y.m)

\* -1, 0, 1 as x < y, x = y, x > y  (neither is NaN; -0.0 = 0.0)
FCmp(x, y) ==
    LET sx == IF FIsZero(x) THEN 0 ELSE IF x.s = 1 THEN -1 ELSE 1
        sy == IF FIsZero(y) THEN 0 ELSE IF y.s = 1 THEN -1 ELSE 1
    IN  IF sx # sy THEN (IF sx < sy THEN -1 ELSE 1)
        ELSE IF sx = 0 THEN 0
        ELSE sx * MagCmp(x, y)

\* the comparisons of floats: false as soon as an operand is NaN
FLt(x, y) == ~FIsNaN(x) /\ ~FIsNaN(y) /\ FCmp(x, y) < 0
FLe(x, y) == ~FIsNaN(x) /\ ~FIsNaN(y) /\ FCmp(x, y) <= 0
FGt(x, y) == FLt(y, x)
FGe(x, y) == FLe(y, x)
FEq(x, y) == ~FIsNaN(x) /\ ~FIsNaN(y) /\ FCmp(x, y) = 0

\* (-1)^sx * A * 2^e0 + (-1)^sy * B * 2^e0
FAddAligned(sx, sy, A, B, e0) ==
    IF sx # sy /\ BigCmp(A, B) = 0 THEN FZero(0)
    ELSE RoundSticky(IF sx = sy \/ BigCmp(A, B) > 0 THEN sx ELSE sy,
                     IF sx = sy THEN BigAdd(A, B)
                     ELSE BigSub(IF BigCmp(A, B) > 0 THEN A ELSE B,
                                 IF BigCmp(A, B) > 0 THEN B ELSE A),
                     FALSE, e0)

\* x + y
FAdd(x, y) ==
    IF FIsNaN(x) \/ FIsNaN(y) THEN FNaN
    ELSE IF FIsInf(x) THEN (IF FIsInf(y) /\ y.s # x.s THEN FNaN ELSE x)
    ELSE IF FIsInf(y) THEN y
    ELSE IF FIsZero(x) /\ FIsZero(y) THEN FZero(IF x.s = 1 /\ y.s = 1 THEN 1 ELSE 0)
    ELSE IF FIsZero(x) THEN y
    ELSE IF FIsZero(y) THEN x
    ELSE IF x.e - y.e > MantBits + 11 THEN x
    ELSE IF y.e - x.e > MantBits + 11 THEN y
    ELSE FAddAligned(x.s, y.s, BigShl(x.m, x.e - Min(x.e, y.e)),
                     BigShl(y.m, y.e - Min(x.e, y.e)), Min(x.e, y.e))

\* x - y
FSub(x, y) == FAdd(x, FNeg(y))

\* x * y
FMul(x, y) ==
    LET s == (x.s + y.s) % 2
    IN  IF FIsNaN(x) \/ FIsNaN(y) THEN FNaN
        ELSE IF FIsInf(x) \/ FIsInf(y)
        THEN (IF FIsZero(x) \/ FIsZero(y) THEN FNaN ELSE FInf(s))
        ELSE IF FIsZero(x) \/ FIsZero(y) THEN FZero(s)
        ELSE RoundSticky(s, BigMul(x.m, y.m), FALSE, x.e + y.e)

\* x / y of numpy floats: a division by zero gives inf or nan
FDiv(x, y) ==
    LET s == (x.s + y.s) % 2
    IN  IF FIsNaN(x) \/ FIsNaN(y) THEN FNaN
        ELSE IF FIsInf(x) THEN (IF FIsInf(y) THEN FNaN ELSE FInf(s))
        ELSE IF FIsInf(y) THEN FZero(s)
        ELSE IF FIsZero(y) THEN (IF FIsZero(x) THEN FNaN ELSE FInf(s))
        ELSE IF FIsZero(x) THEN FZero(s)
        ELSE FromRatio(s, x.m, y.m, x.e - y.e)

\* the float nearest to sqrt(A) * 2^e, r being floor(sqrt(A))
FSqrtFrom(A, r, e) == RoundSticky(0, r, BigCmp(BigMul(r, r), A) # 0, e)

FSqrtScaled(A, e) == FSqrtFrom(A, BigSqrt(A), e)

\* np.sqrt(x): of the mantissa scaled by 2^t to 107 or 108 bits, for a t
\* that leaves an even exponent
FSqrtShift(x) ==
    (2 * MantBits + 4 - BitLen(x.m)) + ((x.e - (2 * MantBits + 4 - BitLen(x.m))) % 2)

FSqrt(x) ==
    IF FIsNaN(x) THEN FNaN
    ELSE IF FIsZero(x) THEN x
    ELSE IF x.s = 1 THEN FNaN
    ELSE IF FIsInf(x) THEN x
    ELSE FSqrtScaled(BigShl(x.m, FSqrtShift(x)), (x.e - FSqrtShift(x)) \div 2)

\* np.rint(x): the nearest integer, the even one of two equally near
FRint(x) ==
    IF x.c # "fin" \/ FIsZero(x) \/ x.e >= 0 THEN x
    ELSE RoundSticky(x.s, BigShrNearest(x.m, FALSE, -x.e), FALSE, 0)

----------------------------------------------------------------------------
(* Text: str.split(','), str.strip(), float().                             *)
(* A string is the sequence of the code points of its characters.          *)

\* the ASCII characters from the blank (32) to the underscore (95), and
\* from the letter a (97) to the tilde (126)
AsciiTo95 ==
    " !" \o "\"" \o "#$%&'(" \o ")*+,-./0123456789:;<=>?@ABCDEFGHIJKLMNOPQRSTUVWXYZ["
    \o "\\" \o "]^_"
AsciiFrom97 == "abcdefghijklmnopqrstuvwxyz{|}~"

IndexIn(s, c) == {i \in 1..Len(s) : SubSeq(s, i, i) = c}

\* ord(c) of a one-character string
Ord(c) ==
    CASE c = "\t" -> 9
      [] c = "\n" -> 10
      [] c = "\f" -> 12
      [] c = "\r" -> 13
      [] IndexIn(AsciiTo95, c) # {} -> 31 + CHOOSE i \in IndexIn(AsciiTo95, c) : TRUE
      [] OTHER -> 96 + CHOOSE i \in IndexIn(AsciiFrom97, c) : TRUE

\* the string written s, as code points
Codes(s) == SubSeq([i \in 1..Len(s) |-> Ord(SubSeq(s, i, i))], 1, Len(s))

\* the characters c with c.isspace(), those str.strip() removes
Whitespace ==
    {9, 10, 11, 12, 13, 28, 29, 30, 31, 32, 133, 160, 5760}
    \cup (8192..8202) \cup {8232, 8233, 8239, 8287, 12288}

IsSpace(c) == c \in Whitespace

\* the interpreters the model runs the program under.  They differ in the
\* characters float() reads as digits (the Unicode tables they are built
\* with) and in the order list.sort gives a list with a NaN (count_run was
\* rewritten for CPython 3.13)
Interpreters == {"CPython 3.11", "CPython 3.12", "CPython 3.13"}

\* the digit zero of every script: c is a decimal digit (category Nd) iff
\* z <= c <= z + 9 for one z.  Unicode 14.0, the tables of CPython 3.11
UNICODE_14_ZEROS ==
    {48, 1632, 1776, 1984, 2406, 2534, 2662, 2790, 2918, 3046, 3174, 3302,
     3430, 3558, 3664, 3792, 3872, 4160, 4240, 6112, 6160, 6470, 6608, 6784,
     6800, 6992, 7088, 7232, 7248, 42528, 43216, 43264, 43472, 43504, 43600,
     44016, 65296, 66720, 68912, 69734, 69872, 69942, 70096, 70384, 70736,
     70864, 71248, 71360, 71472, 71904, 72016, 72784, 73040, 73120, 92768,
     92864, 93008, 120782, 120792, 120802, 120812, 120822, 123200, 123632,
     125264, 130032}

\* Unicode 15.0 and 15.1, the tables of CPython 3.12 and 3.13, have the
\* digits of two more scripts: Kawi (U+11F50) and Nag Mundari (U+1E4F0)
UNICODE_15_ZEROS == UNICODE_14_ZEROS \cup {73552, 124144}

DecimalZeros(interpreter) ==
    IF interpreter = "CPython 3.11" THEN UNICODE_14_ZEROS ELSE UNICODE_15_ZEROS

\* the characters float() reads as a digit
Digits(interpreter) == UNION {z..(z + 9) : z \in DecimalZeros(interpreter)}

DigitVal(c, interpreter) ==
    c - (CHOOSE z \in DecimalZeros(interpreter) : z <= c /\ c <= z + 9)

\* s from its first character that is no space, up to its last one that is
\* no space
LStrip(s) ==
    LET kept == {i \in 1..Len(s) : ~IsSpace(s[i])}
    IN  IF kept = {} THEN <<>> ELSE SubSeq(s, Least(kept), Len(s))

RStrip(s) ==
    LET kept == {i \in 1..Len(s) : ~IsSpace(s[i])}
    IN  IF kept = {} THEN <<>> ELSE SubSeq(s, 1, Greatest(kept))

\* str.strip()
Strip(s) == RStrip(LStrip(s))

\* str.split(','): n commas give n + 1 pieces, empty ones included; the
\* k-th piece lies between the (k-1)-th comma and the k-th one, the text
\* having a comma before its first character and one after its last
Split(s) ==
    LET commas == {i \in 1..Len(s) : s[i] = 44}
        n      == Cardinality(commas)
        at(k)  == IF k = 0 THEN 0
                  ELSE IF k = n + 1 THEN Len(s) + 1
                  ELSE CHOOSE i \in commas :
                           Cardinality({j \in commas : j < i}) = k - 1
    IN  [k \in 1..(n + 1) |-> SubSeq(s, at(k - 1) + 1, at(k) - 1)]

\* float() first rewrites its argument in ASCII.  A text of ASCII
\* characters (below 128) is taken as it is.  In another text a character
\* below 127 is kept, another space becomes a blank and another decimal
\* digit the ASCII digit of its value; any other character becomes a
\* question mark, and the text ends there.
Rewritable(c, interpreter) ==
    c < 127 \/ IsSpace(c) \/ c \in Digits(interpreter)

Rewritten(c, interpreter) ==
    IF c < 127 THEN c
    ELSE IF IsSpace(c) THEN 32
    ELSE IF c \in Digits(interpreter) THEN 48 + DigitVal(c, interpreter)
    ELSE 63

\* the text s up to its first character that is not rewritable, included
UpToFirst(s, others) ==
    IF others = {} THEN s ELSE SubSeq(s, 1, Least(others))

ToAscii(s, interpreter) ==
    IF \A i \in 1..Len(s) : s[i] < 128 THEN s
    ELSE LET t == UpToFirst(s, {i \in 1..Len(s) : ~Rewritable(s[i], interpreter)})
         IN  SubSeq([i \in 1..Len(t) |-> Rewritten(t[i], interpreter)], 1, Len(t))

\* the spaces float() skips at both ends of the rewritten text
IsCSpace(c) == c \in {9, 10, 11, 12, 13, 32}

CStrip(s) ==
    LET kept == {i \in 1..Len(s) : ~IsCSpace(s[i])}
    IN  IF kept = {} THEN <<>> ELSE SubSeq(s, Least(kept), Greatest(kept))

IsAsciiDigit(c) == 48 <= c /\ c <= 57

\* an underscore is allowed between two digits only
UnderscoresOk(s) ==
    \A i \in 1..Len(s) :
        s[i] = 95 => /\ 1 < i /\ i < Len(s)
                     /\ IsAsciiDigit(s[i - 1]) /\ IsAsciiDigit(s[i + 1])

\* upper-case letters to lower case
Lower(s) == [i \in 1..Len(s) |-> IF 65 <= s[i] /\ s[i] <= 90 THEN s[i] + 32 ELSE s[i]]

\* the index after the ASCII digits of s that start at index i
DigitRun(s, i) == Least({j \in i..(Len(s) + 1) : j = Len(s) + 1 \/ ~IsAsciiDigit(s[j])})

\* 10^k
RECURSIVE Pow10(_)
Pow10(k) ==
    IF k < 9 THEN Big(10^k)
    ELSE LET h == Pow10(k \div 2) IN BigMul(BigMul(h, h), Big(10^(k % 2)))

\* the number written with at most nine ASCII digits
DigitsToInt(s) == Sigma([i \in 1..Len(s) |-> (s[i] - 48) * 10^(Len(s) - i)])

RECURSIVE DigitsToBig(_)
DigitsToBig(s) ==
    IF Len(s) <= 9 THEN Big(DigitsToInt(s))
    ELSE LET h == 9 * ((Len(s) + 17) \div 18)
         IN  BigAdd(BigMul(DigitsToBig(SubSeq(s, 1, Len(s) - h)), Pow10(h)),
                    DigitsToBig(SubSeq(s, Len(s) - h + 1, Len(s))))

\* the digits s without their leading zeros
SignificantDigits(s) ==
    LET kept == {i \in 1..Len(s) : s[i] # 48}
    IN  IF kept = {} THEN <<>> ELSE SubSeq(s, Least(kept), Len(s))

\* the largest exponent float() reads, and the largest number of digits
MAX_ABS_EXP == 1100000000
MAX_DIGITS == 1000000000

\* the exponent written with the ASCII digits s: the leading zeros are
\* skipped, and an exponent of more than nine digits is read as
\* MAX_ABS_EXP (one of at most nine digits is below it)
DigitsToExp(s) ==
    IF Len(SignificantDigits(s)) > 9 THEN MAX_ABS_EXP
    ELSE DigitsToInt(SignificantDigits(s))

\* the float nearest to (-1)^s * N * 10^x, for the N written with nd digits:
\* beyond 10^310 it is infinite, below 10^-330 it is zero
DecimalToFloat(s, N, nd, x) ==
    IF N = <<>> THEN FZero(s)
    ELSE IF x > 310 THEN FInf(s)
    ELSE IF x + nd < -330 THEN FZero(s)
    ELSE IF x >= 0 THEN RoundSticky(s, BigMul(N, Pow10(x)), FALSE, 0)
    ELSE FromRatio(s, N, Pow10(-x), 0)

\* float(tok): [ok |-> FALSE] stands for the ValueError "could not convert
\* string to float".  The text is rewritten in ASCII and stripped; what is
\* left is an optional sign followed by "inf", "infinity" or "nan" in any
\* case, or by a number: digits with at most one point and at least one
\* digit, then an optional exponent (e or E, an optional sign, digits);
\* single underscores may stand between digits.  The value is the float
\* nearest to the number written.
NotAFloat == [ok |-> FALSE, v |-> FZero(0)]
AFloat(x) == [ok |-> TRUE, v |-> x]

\* the number with sign s, integer digits ip, fraction digits fp and
\* decimal exponent e
FloatOfDigits(s, ip, fp, e) ==
    AFloat(DecimalToFloat(s, DigitsToBig(ip \o fp), Len(ip) + Len(fp), e - Len(fp)))

\* the number, if the text is complete and has a digit before its
\* exponent; a text with more than MAX_DIGITS digits after its leading
\* zeros, or after its point, is refused
FloatOfParts(s, ip, fp, complete, e) ==
    IF ~complete \/ Len(ip) + Len(fp) = 0 THEN NotAFloat
    ELSE IF Len(SignificantDigits(ip \o fp)) > MAX_DIGITS \/ Len(fp) > MAX_DIGITS
         THEN NotAFloat
    ELSE FloatOfDigits(s, ip, fp, e)

\* the index of the first digit of an exponent whose letter is at index b
ExponentStart(t, b) ==
    IF b + 1 <= Len(t) /\ t[b + 1] \in {43, 45} THEN b + 2 ELSE b + 1

\* the text t, whose mantissa is ip.fp and ends before the index b: an
\* exponent may follow, with at least one digit, and nothing else
FloatOfMantissa(s, t, ip, fp, b) ==
    LET ex == b <= Len(t) /\ t[b] \in {101, 69}
        c  == ExponentStart(t, b)
        d  == DigitRun(t, c)
    IN  FloatOfParts(s, ip, fp,
                     IF ex THEN d > c /\ d = Len(t) + 1 ELSE b = Len(t) + 1,
                     IF ~ex THEN 0
                     ELSE (IF t[c - 1] = 45 THEN -1 ELSE 1)
                          * DigitsToExp(SubSeq(t, c, d - 1)))

\* the text t, whose integer digits end before the index a: a point and
\* the digits of the fraction may follow
FloatOfInteger(s, t, a) ==
    LET pt == a <= Len(t) /\ t[a] = 46
        b  == IF pt THEN DigitRun(t, a + 1) ELSE a
    IN  FloatOfMantissa(s, t, SubSeq(t, 1, a - 1),
                        IF pt THEN SubSeq(t, a + 1, b - 1) ELSE <<>>, b)

\* the text t after the sign s
FloatOfUnsigned(s, t) ==
    IF Lower(t) = Codes("nan") THEN AFloat(FNaN)
    ELSE IF Lower(t) \in {Codes("inf"), Codes("infinity")} THEN AFloat(FInf(s))
    ELSE FloatOfInteger(s, t, DigitRun(t, 1))

\* the text w without underscores: a sign may come first
FloatOfSigned(w) ==
    LET signed == w # <<>> /\ Head(w) \in {43, 45}
    IN  FloatOfUnsigned(IF signed /\ Head(w) = 45 THEN 1 ELSE 0,
                        IF signed THEN Tail(w) ELSE w)

\* the text u in ASCII, stripped
FloatOfAscii(u) ==
    IF ~UnderscoresOk(u) THEN NotAFloat
    ELSE FloatOfSigned(SelectSeq(u, LAMBDA c : c # 95))

Float(tok, interpreter) == FloatOfAscii(CStrip(ToAscii(tok, interpreter)))

----------------------------------------------------------------------------
(* validation.py *)

\* a ValueError, by its message; val is the number a range error names and
\* n the count a count error names:
\*   "empty"      Input cannot be empty
\*   "format"     Invalid number format. Use comma-separated numeric values.
\*   "no_values"  No valid values found in input
\*   "range"      IOP value {val} is out of acceptable range (0-100 mmHg)
\*   "count"      At least 3 measurements are required ... Provided: {n}
\* and, outside validation.py,
\*   "constructor"   At least 3 measurements are required for robust
\*                   estimation (IOPCalculator.__init__)
\*   "please_enter"  Please enter IOP measurements above. (main)
Message(k, v, n) == [kind |-> k, val |-> v, n |-> n]

NoError == Message("none", FZero(0), 0)
Raise(k, v, n) == [ok |-> FALSE, values |-> <<>>, error |-> Message(k, v, n)]
Return(vals) == [ok |-> TRUE, values |-> vals, error |-> NoError]

ParseErrors == {"empty", "format", "no_values"}

\* a variant with an exclusive upper bound
OutOfRange_exclusive(val) ==
    FLt(val, FromInt(MIN_IOP_VALUE)) \/ ~FLt(val, FromInt(MAX_IOP_VALUE))

\* val < MIN_IOP_VALUE or val > MAX_IOP_VALUE
OutOfRange(val) ==
    FLt(val, FromInt(MIN_IOP_VALUE)) \/ FGt(val, FromInt(MAX_IOP_VALUE))

\* [float(x.strip()) for x in input_string.split(',') if x.strip()], every
\* float() with its outcome
NonBlank(input_string) == SelectSeq(Split(input_string), LAMBDA x : Strip(x) # <<>>)

Convert(tokens, interpreter) ==
    SubSeq([i \in 1..Len(tokens) |-> Float(Strip(tokens[i]), interpreter)],
           1, Len(tokens))

ValuesOf(floats) == SubSeq([i \in 1..Len(floats) |-> floats[i].v], 1, Len(floats))

\* a variant that converts and checks one token after the other, so that
\* the first token at fault decides the error
CheckEach(floats, bad) ==
    IF floats = <<>> THEN Raise("no_values", FZero(0), 0)
    ELSE IF bad = {} THEN Return(ValuesOf(floats))
    ELSE IF ~floats[Least(bad)].ok THEN Raise("format", FZero(0), 0)
    ELSE Raise("range", floats[Least(bad)].v, 0)

ConvertEach(floats) ==
    CheckEach(floats, {i \in 1..Len(floats) : ~floats[i].ok \/ OutOfRange(floats[i].v)})

parse_iop_input_token_by_token(input_string, interpreter) ==
    IF Strip(input_string) = <<>> THEN Raise("empty", FZero(0), 0)
    ELSE ConvertEach(Convert(NonBlank(input_string), interpreter))

\* the loop "for val in values": the first value out of range raises
CheckRange(values, bad) ==
    IF bad # {} THEN Raise("range", values[Least(bad)], 0) ELSE Return(values)

\* the list is built, a float() that fails ending it; then the checks
CheckValues(floats) ==
    IF \E i \in 1..Len(floats) : ~floats[i].ok THEN Raise("format", FZero(0), 0)
    ELSE IF floats = <<>> THEN Raise("no_values", FZero(0), 0)
    ELSE CheckRange(ValuesOf(floats), {i \in 1..Len(floats) : OutOfRange(floats[i].v)})

parse_iop_input(input_string, interpreter) ==
    IF Strip(input_string) = <<>> THEN Raise("empty", FZero(0), 0)
    ELSE CheckValues(Convert(NonBlank(input_string), interpreter))

\* a variant that also refuses exactly MIN_MEASUREMENTS values
validate_measurement_count_off_by_one(ms) ==
    IF Len(ms) <= MIN_MEASUREMENTS THEN Raise("count", FZero(0), Len(ms)) ELSE Return(ms)

\* a variant that checks nothing
validate_measurement_count_unchecked(ms) == Return(ms)

validate_measurement_count(ms) ==
    IF Len(ms) < MIN_MEASUREMENTS THEN Raise("count", FZero(0), Len(ms)) ELSE Return(ms)

\* the count is checked if parsing raised nothing
CheckCount(parsed) ==
    IF ~parsed.ok THEN parsed ELSE validate_measurement_count(parsed.values)

validate_measurements(input_string, interpreter) ==
    CheckCount(parse_iop_input(input_string, interpreter))

----------------------------------------------------------------------------
(* numpy on arrays of float64: an array is a sequence of floats.           *)
(* The operations are those of numpy 1.25 and later on one-dimensional     *)
(* contiguous arrays.                                                      *)

One == FromInt(1)

\* the float written with the decimal digits of v / 1000, as float() and
\* the Python compiler read such a literal
D(v) == FromRatio(IF v < 0 THEN 1 ELSE 0, Big(Abs(v)), Big(1000), 0)

\* rint(x * scale) / scale
RoundScaled(x, scale) == FDiv(FRint(FMul(x, scale)), scale)

\* round(x, ndigits) of a numpy float: rint(x * 10^ndigits) / 10^ndigits
round(x, ndigits) == RoundScaled(x, FromInt(10^ndigits))

HasNaN(a) == \E i \in 1..Len(a) : FIsNaN(a[i])

\* the order of np.sort: by value, NaN after every number
SortLt(x, y) == IF FIsNaN(y) THEN ~FIsNaN(x) ELSE FLt(x, y)

\* np.sort(a): every element goes after the smaller ones and after the
\* equal ones that precede it
np_sort(a) ==
    LET n      == Len(a)
        pos(i) == 1 + Cardinality({j \in 1..n : SortLt(a[j], a[i])})
                    + Cardinality({j \in 1..(i - 1) :
                                      ~SortLt(a[j], a[i]) /\ ~SortLt(a[i], a[j])})
    IN  SubSeq([k \in 1..n |-> a[CHOOSE i \in 1..n : pos(i) = k]], 1, n)

\* r + a[i] + a[i + step] + ... + a[i + k * step], up to the index last
RECURSIVE AddFrom(_, _, _, _, _)
AddFrom(r, a, i, step, last) ==
    IF i > last THEN r ELSE AddFrom(FAdd(r, a[i]), a, i + step, step, last)

\* numpy's pairwise summation: fewer than 8 elements are added one after
\* the other to -0.0; up to 128 elements are added in 8 interleaved lanes,
\* the lanes are combined two by two and the 0 to 7 elements left over are
\* added one after the other; a longer array is split in two
PW_BLOCKSIZE == 128

\* the lanes r[lo..hi] combined two by two:
\* ((r[1] + r[2]) + (r[3] + r[4])) + ((r[5] + r[6]) + (r[7] + r[8]))
RECURSIVE CombineLanes(_, _, _)
CombineLanes(r, lo, hi) ==
    IF lo = hi THEN r[lo]
    ELSE FAdd(CombineLanes(r, lo, (lo + hi) \div 2),
              CombineLanes(r, ((lo + hi) \div 2) + 1, hi))

\* the lane j holds a[j] + a[j + 8] + ... up to the index m
Lanes(a, m) == SubSeq([j \in 1..8 |-> AddFrom(a[j], a, j + 8, 8, m)], 1, 8)

RECURSIVE pairwise_sum(_)
pairwise_sum(a) ==
    LET n  == Len(a)
        m  == n - (n % 8)
        n2 == (n \div 2) - ((n \div 2) % 8)
    IN  IF n < 8 THEN AddFrom(FZero(1), a, 1, 1, n)
        ELSE IF n <= PW_BLOCKSIZE
        THEN AddFrom(CombineLanes(Lanes(a, m), 1, 8), a, m + 1, 1, n)
        ELSE FAdd(pairwise_sum(SubSeq(a, 1, n2)), pairwise_sum(SubSeq(a, n2 + 1, n)))

\* np.sum(a) of a non-empty array: the reduction starts from -0.0
np_sum(a) == FAdd(FZero(1), pairwise_sum(a))

\* np.min(a), np.max(a): the reduction keeps its value unless the next
\* element is smaller (larger); a NaN, once met, stays
RECURSIVE MinFrom(_, _, _)
MinFrom(r, a, i) ==
    IF i > Len(a) THEN r
    ELSE MinFrom(IF FLe(r, a[i]) \/ FIsNaN(r) THEN r ELSE a[i], a, i + 1)

RECURSIVE MaxFrom(_, _, _)
MaxFrom(r, a, i) ==
    IF i > Len(a) THEN r
    ELSE MaxFrom(IF FGe(r, a[i]) \/ FIsNaN(r) THEN r ELSE a[i], a, i + 1)

np_min(a) == MinFrom(a[1], a, 2)
np_max(a) == MaxFrom(a[1], a, 2)

\* np.mean(a) = np.sum(a) / len(a)
np_mean(a) == FDiv(np_sum(a), FromInt(Len(a)))

\* np.median(a): the mean of the middle element, or of the two middle
\* elements, of the ordered array; NaN if the array holds a NaN
MiddlePart(s) == SubSeq(s, (Len(s) + 1) \div 2, (Len(s) \div 2) + 1)

np_median(a) ==
    IF HasNaN(a) THEN FNaN ELSE np_mean(MiddlePart(np_sort(a)))

\* floor(x) of a float x >= 0 that is less than 2^30
Floor(x) == IF x.e >= 0 THEN BigToInt(BigShl(x.m, x.e)) ELSE BigToInt(BigShr(x.m, -x.e))

\* the virtual index (n - 1) * (q / 100) of the percentile q in an ordered
\* array of n elements, 0-based
VirtualIndex(n, q) == FMul(FromInt(n - 1), FDiv(FromInt(q), FromInt(100)))

\* a variant that takes the element at the floor of the virtual index
ElementBelow(s, virtual_index) == s[Floor(virtual_index) + 1]

np_percentile_lower(a, q) ==
    IF HasNaN(a) THEN FNaN
    ELSE ElementBelow(np_sort(a), VirtualIndex(Len(a), q))

\* numpy's _lerp(a, b, t): a + (b - a) * t, computed from b when t >= 0.5
LerpBy(a, b, t, diff_b_a) ==
    IF FGe(t, D(500)) THEN FSub(b, FMul(diff_b_a, FSub(One, t)))
    ELSE FAdd(a, FMul(diff_b_a, t))

Lerp(a, b, t) == LerpBy(a, b, t, FSub(b, a))

\* the elements of the ordered array s at the floor of the virtual index
\* and one above (both the last one if the index is n - 1 or more, and the
\* distance gamma is then taken from index -1), interpolated
Interpolated(s, virtual_index, above) ==
    LET n        == Len(s)
        previous == IF above THEN n ELSE Floor(virtual_index) + 1
        next     == IF above THEN n ELSE previous + 1
    IN  Lerp(s[previous], s[next],
             FSub(virtual_index, FromInt(IF above THEN -1 ELSE previous - 1)))

AtVirtualIndex(s, virtual_index) ==
    Interpolated(s, virtual_index, FGe(virtual_index, FromInt(Len(s) - 1)))

\* np.percentile(a, q), method 'linear'
np_percentile(a, q) ==
    IF HasNaN(a) THEN FNaN
    ELSE AtVirtualIndex(np_sort(a), VirtualIndex(Len(a), q))

\* np.std(a, ddof): the mean, the deviations from it, the sum of their
\* squares over n - ddof, the square root
Deviations(a, arrmean) == SubSeq([i \in 1..Len(a) |-> FSub(a[i], arrmean)], 1, Len(a))

Squares(x) == SubSeq([i \in 1..Len(x) |-> FMul(x[i], x[i])], 1, Len(x))

np_std(a, ddof) ==
    FSqrt(FDiv(np_sum(Squares(Deviations(a, FDiv(np_sum(a), FromInt(Len(a)))))),
               FromInt(Max(Len(a) - ddof, 0))))

----------------------------------------------------------------------------
(* The eight estimators *)

\* a variant that drops every occurrence of the minimum and of the maximum
calculate_safe_iop_drops_duplicates(ms) ==
    LET min_val == np_min(ms)
        max_val == np_max(ms)
        kept    == SelectSeq(ms, LAMBDA v : ~FEq(v, min_val) /\ ~FEq(v, max_val))
    IN  IF kept = <<>> THEN round(np_mean(ms), 1)
        ELSE round(np_mean(kept), 1)

\* a variant that forgets to take the maximum out of the sum
calculate_safe_iop_keeps_max(ms) ==
    LET n         == Len(ms)
        total_sum == np_sum(ms)
        min_val   == np_min(ms)
    IN  IF n < 3 THEN round(np_mean(ms), 1)
        ELSE round(FDiv(FSub(total_sum, min_val), FromInt(n - 2)), 1)

\* safe_iop.py, line 43: the trimmed mean before it is rounded,
\* (total_sum - min_val - max_val) / (n - 2)
trimmed_mean(ms) ==
    LET n         == Len(ms)
        total_sum == np_sum(ms)
        min_val   == np_min(ms)
        max_val   == np_max(ms)
    IN  FDiv(FSub(FSub(total_sum, min_val), max_val), FromInt(n - 2))

\* safe_iop.py
calculate_safe_iop(ms) ==
    IF Len(ms) < 3 THEN round(np_mean(ms), 1)
    ELSE round(trimmed_mean(ms), 1)

\* possible_iop.py
calculate_possible_iop(ms) == round(np_median(ms), 1)

\* clinical_iop.py
calculate_clinical_iop(ms) ==
    round(FDiv(FAdd(np_min(ms), np_max(ms)), FromInt(2)), 1)

\* mean_iop.py
calculate_mean_iop(ms) == round(np_mean(ms), 1)

\* a variant that counts the median once
calculate_trimean_iop_single_median(ms) ==
    LET q1      == np_percentile(ms, 25)
        median  == np_median(ms)
        q3      == np_percentile(ms, 75)
        trimean == FDiv(FAdd(FAdd(q1, median), q3), FromInt(4))
    IN  round(trimean, 1)

\* trimean_iop.py
calculate_trimean_iop(ms) ==
    LET q1      == np_percentile(ms, 25)
        median  == np_median(ms)
        q3      == np_percentile(ms, 75)
        trimean == FDiv(FAdd(FAdd(q1, FMul(FromInt(2), median)), q3), FromInt(4))
    IN  round(trimean, 1)

\* a variant whose upper index is floor(3 * n / 4)
iqr_data_floor_upper(ms) ==
    LET sorted_data == np_sort(ms)
        n           == Len(sorted_data)
        lower_idx   == n \div 4
        upper_idx   == (3 * n) \div 4
    IN  SubSeq(sorted_data, lower_idx + 1, upper_idx)

\* iqm_iop.py: sorted_data[lower_idx:upper_idx] with lower_idx = floor(n / 4)
\* and upper_idx = ceil(3 * n / 4)
iqr_data(ms) ==
    LET sorted_data == np_sort(ms)
        n           == Len(sorted_data)
        lower_idx   == n \div 4
        upper_idx   == (3 * n + 3) \div 4
    IN  SubSeq(sorted_data, lower_idx + 1, upper_idx)

calculate_iqm_iop_floor_upper(ms) ==
    IF Len(iqr_data_floor_upper(ms)) = 0
    THEN round(np_mean(ms), 1)
    ELSE round(np_mean(iqr_data_floor_upper(ms)), 1)

calculate_iqm_iop(ms) ==
    IF Len(iqr_data(ms)) = 0
    THEN round(np_mean(ms), 1)
    ELSE round(np_mean(iqr_data(ms)), 1)

\* numpy arrays as objects.  A heap is the sequence of the arrays that
\* exist, and an array is referred to by its index in the heap: two names
\* that refer to the same index share one array.

\* np.sort(a) and a.copy() make a new array, which becomes the last one of
\* the heap
Last(heap) == heap[Len(heap)]
np_sort_new(heap, a) == Append(heap, np_sort(heap[a]))
ndarray_copy(heap, a) == Append(heap, heap[a])

\* the place of array[i]: i counts from 0, and from the end if negative
ItemAt(array, i) == IF i < 0 THEN Len(array) + i + 1 ELSE i + 1

\* a[i] = b[j]: the array a refers to is written
setitem(heap, a, i, b, j) ==
    [heap EXCEPT ![a][ItemAt(heap[a], i)] = heap[b][ItemAt(heap[b], j)]]

\* winsorized_iop.py, lines 41-47, for the array the heap has at the
\* index a (the argument measurements): the heap after
\*     sorted_data = np.sort(measurements)
\*     winsorized = sorted_data.copy()
\*     winsorized[0] = sorted_data[1]
\*     winsorized[-1] = sorted_data[-2]
\* sorted_data being its last array but one and winsorized its last one
Replaced(heap, sorted_data, winsorized) ==
    setitem(setitem(heap, winsorized, 0, sorted_data, 1),
            winsorized, -1, sorted_data, -2)

Copied(heap, sorted_data) ==
    Replaced(ndarray_copy(heap, sorted_data), sorted_data, Len(heap) + 1)

\* a variant whose names sorted_data and winsorized refer to the array it
\* was given (no np.sort, no copy)
Winsorized_in_place(heap, a) == Replaced(heap, a, a)

Winsorized(heap, a) == Copied(np_sort_new(heap, a), Len(heap) + 1)

\* a variant that replaces only the minimum
calculate_winsorized_iop_keeps_max(ms) ==
    LET sorted_data == np_sort(ms)
        n           == Len(sorted_data)
        winsorized  == [sorted_data EXCEPT ![1] = sorted_data[2]]
    IN  IF n < 3 THEN round(np_mean(ms), 1)
        ELSE round(np_mean(winsorized), 1)

\* winsorized_iop.py: the mean of the array winsorized, the last one of
\* the heap
calculate_winsorized_iop(ms) ==
    IF Len(ms) < 3 THEN round(np_mean(ms), 1)
    ELSE round(np_mean(Last(Winsorized(<<ms>>, 1))), 1)

\* weighted_iop.py: weights = 1.0 / (1.0 + np.abs(ms - median))
weights(ms) ==
    LET median == np_median(ms)
    IN  SubSeq([i \in 1..Len(ms) |->
                   FDiv(One, FAdd(One, FAbs(FSub(ms[i], median))))],
               1, Len(ms))

\* np.sum(measurements * weights) / np.sum(weights)
Products(ms, w) == SubSeq([i \in 1..Len(ms) |-> FMul(ms[i], w[i])], 1, Len(ms))

WeightedMean(ms, w) == FDiv(np_sum(Products(ms, w)), np_sum(w))

calculate_weighted_iop(ms) == round(WeightedMean(ms, weights(ms)), 1)

----------------------------------------------------------------------------
(* statistics.py *)

get_range(ms) ==
    <<round(np_min(ms), 1), round(np_max(ms), 1)>>

\* a variant that subtracts the rounded minimum from the rounded maximum
get_variability_of_rounded(ms) ==
    FSub(get_range(ms)[2], get_range(ms)[1])

get_variability(ms) ==
    round(FSub(np_max(ms), np_min(ms)), 1)

get_standard_deviation(ms) == round(np_std(ms, 1), 2)

----------------------------------------------------------------------------
(* config.py and interpretation.py *)

\* the dict CLINICAL_RANGES, in its insertion order (mmHg)
CLINICAL_RANGES ==
    << [category |-> "severe_hypotony",     min_val |-> 0,  max_val |-> 6],
       [category |-> "moderate_hypotony",   min_val |-> 6,  max_val |-> 8],
       [category |-> "mild_hypotony",       min_val |-> 8,  max_val |-> 10],
       [category |-> "normal",              min_val |-> 10, max_val |-> 21],
       [category |-> "borderline_elevated", min_val |-> 21, max_val |-> 24],
       [category |-> "elevated",            min_val |-> 24, max_val |-> 30],
       [category |-> "severely_elevated",   min_val |-> 30, max_val |-> 100] >>

INTERPRETATION_LABELS ==
    [severe_hypotony     |-> "Severe Hypotony",
     moderate_hypotony   |-> "Moderate Hypotony",
     mild_hypotony       |-> "Mild Hypotony",
     normal              |-> "Normal Range",
     borderline_elevated |-> "Borderline Elevated",
     elevated            |-> "Elevated",
     severely_elevated   |-> "Severely Elevated"]

VARIABILITY_THRESHOLDS == [excellent |-> 2, good |-> 4, fair |-> 6]

\* a variant whose ranges include their upper end
InRange_closed(i, iop_value) ==
    /\ FLe(FromInt(CLINICAL_RANGES[i].min_val), iop_value)
    /\ FLe(iop_value, FromInt(CLINICAL_RANGES[i].max_val))

\* whether the i-th range contains the value: min_val <= iop_value < max_val
InRange(i, iop_value) ==
    /\ FLe(FromInt(CLINICAL_RANGES[i].min_val), iop_value)
    /\ FLt(iop_value, FromInt(CLINICAL_RANGES[i].max_val))

\* the label of the first range that contains the value; the default
\* after the loop if none does
FirstOrDefault(hits) ==
    IF hits # {}
    THEN INTERPRETATION_LABELS[CLINICAL_RANGES[Least(hits)].category]
    ELSE INTERPRETATION_LABELS["severely_elevated"]

interpret_iop(iop_value) ==
    FirstOrDefault({i \in 1..Len(CLINICAL_RANGES) : InRange(i, iop_value)})

\* a variant whose thresholds belong to the tier above
get_confidence_note_strict(variability) ==
    IF FLt(variability, FromInt(VARIABILITY_THRESHOLDS["excellent"]))
    THEN "Excellent measurement consistency - High confidence"
    ELSE IF FLt(variability, FromInt(VARIABILITY_THRESHOLDS["good"]))
    THEN "Good measurement consistency - Moderate confidence"
    ELSE IF FLt(variability, FromInt(VARIABILITY_THRESHOLDS["fair"]))
    THEN "Fair measurement consistency - Consider additional measurements"
    ELSE "High variability detected - Additional measurements recommended"

get_confidence_note(variability) ==
    IF FLe(variability, FromInt(VARIABILITY_THRESHOLDS["excellent"]))
    THEN "Excellent measurement consistency - High confidence"
    ELSE IF FLe(variability, FromInt(VARIABILITY_THRESHOLDS["good"]))
    THEN "Good measurement consistency - Moderate confidence"
    ELSE IF FLe(variability, FromInt(VARIABILITY_THRESHOLDS["fair"]))
    THEN "Fair measurement consistency - Consider additional measurements"
    ELSE "High variability detected - Additional measurements recommended"

----------------------------------------------------------------------------
(* iop_calculator.py: class IOPCalculator *)

\* sorted(measurements), as list.sort of CPython computes it
\* (Objects/listobject.c).  The only comparison made is x < y, which is
\* false when x or y is NaN, and Python leaves the order of a list with a
\* NaN unspecified: it is the order the steps of the algorithm give.
\*
\* The list is cut into runs.  count_run finds the run that starts at the
\* next element and puts it in ascending order; a run of fewer than minrun
\* elements is filled up to minrun elements, which binarysort inserts one
\* after the other at the place a binary search gives.  The runs are kept
\* on a stack and merged in the order their powers give (found_new_run),
\* and the runs left at the end are merged from the top of the stack
\* (merge_force_collapse).  A list of fewer than MAX_MINRUN elements is
\* one run.  count_run was rewritten for CPython 3.13, so that a list with
\* a NaN comes out in an order that depends on the interpreter.
MAX_MINRUN == 64
MIN_GALLOP == 7

\* the last index of the run the list starts with; desc: it descends
RunEnd(ms, desc) ==
    Least({i \in 2..Len(ms) :
              i = Len(ms) \/ (FLt(ms[i + 1], ms[i]) # desc)})

\* a with its elements at the indices i..j in reverse order
ReverseSlice(a, i, j) ==
    SubSeq([k \in 1..Len(a) |-> IF i <= k /\ k <= j THEN a[i + j - k] ELSE a[k]],
           1, Len(a))

\* a run: the list a, whose first n elements are in ascending order
Run(a, n) == [a |-> a, n |-> n]

\* ... of a list of two elements or more
CountRun_3_12(ms, desc, n) == Run(IF desc THEN ReverseSlice(ms, 1, n) ELSE ms, n)

\* count_run up to CPython 3.12: the run descends if the second element
\* is below the first, and goes on while each element is below the one
\* before it; otherwise it goes on until an element is below the one
\* before it.  A descending run is reversed.
count_run_3_12(ms) ==
    IF Len(ms) = 1 THEN Run(ms, 1)
    ELSE CountRun_3_12(ms, FLt(ms[2], ms[1]), RunEnd(ms, FLt(ms[2], ms[1])))

\* the last index n >= i with no element of a[i+1..n] below the one before it
AscendingEnd(a, i) ==
    Least({n \in i..Len(a) : n = Len(a) \/ FLt(a[n + 1], a[n])})

\* a[1..n], whose last neq + 1 elements are equal (none is below another),
\* with these back in the order they had
EqualsReversed(a, n, neq) == IF neq = 0 THEN a ELSE ReverseSlice(a, n - neq, n)

\* the run a[1..n] with the elements that ascend from its end
Extended(a, n) == Run(a, AscendingEnd(a, n))

\* count_run from CPython 3.13 on, in a run that descends: a[1..n] does not
\* ascend anywhere and its last neq + 1 elements are equal.  The run goes
\* on while the next element is below or equal to the last one; equal
\* elements are reversed among themselves, the run is reversed as a whole,
\* and it is extended by the elements that ascend from there.
RECURSIVE DescendingRun(_, _, _)
DescendingRun(a, n, neq) ==
    IF n < Len(a) /\ FLt(a[n + 1], a[n])
    THEN DescendingRun(EqualsReversed(a, n, neq), n + 1, 0)
    ELSE IF n < Len(a) /\ ~FLt(a[n], a[n + 1])
    THEN DescendingRun(a, n + 1, neq + 1)
    ELSE Extended(ReverseSlice(EqualsReversed(a, n, neq), 1, n), n)

\* ... the ascending run a[1..n] ended by a smaller element: it is the run
\* if its first element is below its last one; otherwise its elements are
\* equal and start a descending run
RunFrom(a, n) ==
    IF n = Len(a) \/ (n > 1 /\ FLt(a[1], a[n])) THEN Run(a, n)
    ELSE DescendingRun(IF n > 1 THEN ReverseSlice(a, 1, n) ELSE a, n + 1, 0)

count_run_3_13(ms) == RunFrom(ms, AscendingEnd(ms, 1))

count_run(ms, interpreter) ==
    IF interpreter = "CPython 3.13" THEN count_run_3_13(ms) ELSE count_run_3_12(ms)

\* the place of pivot among a[l..r-1]: after the elements it is not below
RECURSIVE Bisect(_, _, _, _)
Bisect(a, pivot, l, r) ==
    IF l >= r THEN l
    ELSE LET p == l + (r - l) \div 2
         IN  IF FLt(pivot, a[p]) THEN Bisect(a, pivot, l, p)
             ELSE Bisect(a, pivot, p + 1, r)

\* a with its element at the index start moved to the index l <= start
MoveTo(a, start, l) ==
    SubSeq(a, 1, l - 1) \o <<a[start]>> \o SubSeq(a, l, start - 1)
        \o SubSeq(a, start + 1, Len(a))

RECURSIVE binarysort(_, _)
binarysort(a, start) ==
    IF start > Len(a) THEN a
    ELSE binarysort(MoveTo(a, start, Bisect(a, a[start], 1, start)), start + 1)

RECURSIVE MinRun(_, _)
MinRun(n, r) ==
    IF n >= MAX_MINRUN THEN MinRun(n \div 2, IF n % 2 = 1 THEN 1 ELSE r)
    ELSE n + r

merge_compute_minrun(n) == MinRun(n, 0)

\* the run found in rest, filled up to force elements if it has fewer
\* than minrun
Forced(run, force, minrun) ==
    IF run.n >= minrun THEN run
    ELSE Run(binarysort(SubSeq(run.a, 1, force), run.n + 1)
                 \o SubSeq(run.a, force + 1, Len(run.a)), force)

\* the list a with the run that starts after its first lo elements in
\* ascending order, and the length of this run
NextRun(a, lo, minrun, interpreter) ==
    LET rest == SubSeq(a, lo + 1, Len(a))
        run  == Forced(count_run(rest, interpreter), Min(Len(rest), minrun), minrun)
    IN  Run(SubSeq(a, 1, lo) \o run.a, run.n)

\* whether key belongs after x: in gallop_left after the elements below
\* it, in gallop_right after the elements it is not below
After(key, x, left) == IF left THEN FLt(x, key) ELSE ~FLt(key, x)

\* the offsets lastofs < ofs from a[hint] between which key belongs,
\* towards the end of a (d = 1) or its start (d = -1), ofs going 1, 3, 7, ...
RECURSIVE GallopOffsets(_, _, _, _, _, _, _, _)
GallopOffsets(key, a, left, hint, d, lastofs, ofs, maxofs) ==
    IF ofs < maxofs /\ (After(key, a[hint + 1 + d * ofs], left) <=> d = 1)
    THEN GallopOffsets(key, a, left, hint, d, ofs, 2 * ofs + 1, maxofs)
    ELSE <<lastofs, Min(ofs, maxofs)>>

\* the binary search that ends a gallop: key belongs after a[lastofs] and
\* not after a[ofs + 1] (indices from 1)
RECURSIVE GallopBisect(_, _, _, _, _)
GallopBisect(key, a, left, lastofs, ofs) ==
    IF lastofs >= ofs THEN ofs
    ELSE LET m == lastofs + (ofs - lastofs) \div 2
         IN  IF After(key, a[m + 1], left)
             THEN GallopBisect(key, a, left, m + 1, ofs)
             ELSE GallopBisect(key, a, left, lastofs, m)

TowardsEnd(key, a, left, hint, o) ==
    GallopBisect(key, a, left, o[1] + hint + 1, o[2] + hint)

TowardsStart(key, a, left, hint, o) ==
    GallopBisect(key, a, left, hint - o[2] + 1, hint - o[1])

\* the number of elements of the run a that key belongs after, sought
\* from a[hint] (an index from 0)
Gallop(key, a, hint, left) ==
    IF After(key, a[hint + 1], left)
    THEN TowardsEnd(key, a, left, hint,
                    GallopOffsets(key, a, left, hint, 1, 0, 1, Len(a) - hint))
    ELSE TowardsStart(key, a, left, hint,
                      GallopOffsets(key, a, left, hint, -1, 0, 1, hint + 1))

gallop_left(key, a, hint) == Gallop(key, a, hint, TRUE)

gallop_right(key, a, hint) == Gallop(key, a, hint, FALSE)

\* the result of a merge and the value of ms->min_gallop after it
Merge(out, min_gallop) == [out |-> out, min_gallop |-> min_gallop]

\* a merge under way: the elements of the runs a and b not yet merged,
\* the elements merged, the elements taken in a row from a and from b
Merging(a, b, out, acount, bcount, min_gallop) ==
    [a |-> a, b |-> b, out |-> out, acount |-> acount, bcount |-> bcount,
     min_gallop |-> min_gallop]

Front(s) == SubSeq(s, 1, Len(s) - 1)

Drop(s, k) == SubSeq(s, k + 1, Len(s))

RECURSIVE LoStraight(_), LoGallop(_), LoAfterA(_, _), LoAfterB(_, _, _)

\* merge_lo, one element after the other: the first of b if it is below
\* the first of a, else the first of a
LoStraight(m) ==
    IF FLt(m.b[1], m.a[1])
    THEN IF Len(m.b) = 1
         THEN Merge(Append(m.out, m.b[1]) \o m.a, m.min_gallop)
         ELSE IF m.bcount + 1 >= m.min_gallop
         THEN LoGallop(Merging(m.a, Tail(m.b), Append(m.out, m.b[1]),
                               0, m.bcount + 1, m.min_gallop + 1))
         ELSE LoStraight(Merging(m.a, Tail(m.b), Append(m.out, m.b[1]),
                                 0, m.bcount + 1, m.min_gallop))
    ELSE IF Len(m.a) = 2
         THEN Merge(Append(m.out, m.a[1]) \o m.b \o Tail(m.a), m.min_gallop)
         ELSE IF m.acount + 1 >= m.min_gallop
         THEN LoGallop(Merging(Tail(m.a), m.b, Append(m.out, m.a[1]),
                               m.acount + 1, 0, m.min_gallop + 1))
         ELSE LoStraight(Merging(Tail(m.a), m.b, Append(m.out, m.a[1]),
                                 m.acount + 1, 0, m.min_gallop))

\* merge_lo, galloping: the elements of a that the first of b belongs
\* after, at once
LoGallop(m) ==
    LoAfterA(Merging(m.a, m.b, m.out, 0, 0,
                     IF m.min_gallop > 1 THEN m.min_gallop - 1 ELSE m.min_gallop),
             gallop_right(m.b[1], m.a, 0))

\* ... then the first of b, and the elements of b that the first of a
\* belongs after, at once
LoAfterA(m, k) ==
    IF (k > 0 /\ Len(m.a) - k <= 1) \/ Len(m.b) = 1
    THEN Merge(m.out \o SubSeq(m.a, 1, k) \o m.b \o Drop(m.a, k), m.min_gallop)
    ELSE LoAfterB(Merging(Drop(m.a, k), Tail(m.b),
                          Append(m.out \o SubSeq(m.a, 1, k), m.b[1]),
                          k, 0, m.min_gallop),
                  k, gallop_left(m.a[k + 1], Tail(m.b), 0))

\* ... then the first of a; galloping goes on while one of the two
\* gallops took MIN_GALLOP elements or more
LoAfterB(m, ka, kb) ==
    IF (kb > 0 /\ Len(m.b) = kb) \/ Len(m.a) = 2
    THEN Merge(Append(m.out \o SubSeq(m.b, 1, kb), m.a[1]) \o Drop(m.b, kb)
                   \o Tail(m.a), m.min_gallop)
    ELSE IF ka >= MIN_GALLOP \/ kb >= MIN_GALLOP
    THEN LoGallop(Merging(Tail(m.a), Drop(m.b, kb),
                          Append(m.out \o SubSeq(m.b, 1, kb), m.a[1]),
                          0, 0, m.min_gallop))
    ELSE LoStraight(Merging(Tail(m.a), Drop(m.b, kb),
                            Append(m.out \o SubSeq(m.b, 1, kb), m.a[1]),
                            0, 0, m.min_gallop + 1))

\* merge_lo: the runs a and b, a not longer than b, the first of b being
\* below the first of a; it goes from the start of the runs
merge_lo(a, b, min_gallop) ==
    IF Len(b) = 1 THEN Merge(b \o a, min_gallop)
    ELSE IF Len(a) = 1 THEN Merge(b \o a, min_gallop)
    ELSE LoStraight(Merging(a, Tail(b), <<b[1]>>, 0, 0, min_gallop))

RECURSIVE HiStraight(_), HiGallop(_), HiAfterA(_, _), HiAfterB(_, _, _)

\* merge_hi, one element after the other: the last of a if the last of b
\* is below it, else the last of b
HiStraight(m) ==
    IF FLt(Last(m.b), Last(m.a))
    THEN IF Len(m.a) = 1
         THEN Merge(m.b \o <<Last(m.a)>> \o m.out, m.min_gallop)
         ELSE IF m.acount + 1 >= m.min_gallop
         THEN HiGallop(Merging(Front(m.a), m.b, <<Last(m.a)>> \o m.out,
                               m.acount + 1, 0, m.min_gallop + 1))
         ELSE HiStraight(Merging(Front(m.a), m.b, <<Last(m.a)>> \o m.out,
                                 m.acount + 1, 0, m.min_gallop))
    ELSE IF Len(m.b) = 2
         THEN Merge(Front(m.b) \o m.a \o <<Last(m.b)>> \o m.out, m.min_gallop)
         ELSE IF m.bcount + 1 >= m.min_gallop
         THEN HiGallop(Merging(m.a, Front(m.b), <<Last(m.b)>> \o m.out,
                               0, m.bcount + 1, m.min_gallop + 1))
         ELSE HiStraight(Merging(m.a, Front(m.b), <<Last(m.b)>> \o m.out,
                                 0, m.bcount + 1, m.min_gallop))

\* merge_hi, galloping: the elements of a that the last of b does not
\* belong after, at once
HiGallop(m) ==
    HiAfterA(Merging(m.a, m.b, m.out, 0, 0,
                     IF m.min_gallop > 1 THEN m.min_gallop - 1 ELSE m.min_gallop),
             Len(m.a) - gallop_right(Last(m.b), m.a, Len(m.a) - 1))

\* ... then the last of b, and the elements of b that the last of a does
\* not belong after, at once
HiAfterA(m, k) ==
    IF (k > 0 /\ Len(m.a) = k) \/ Len(m.b) = 2
    THEN Merge(Front(m.b) \o SubSeq(m.a, 1, Len(m.a) - k) \o <<Last(m.b)>>
                   \o Drop(m.a, Len(m.a) - k) \o m.out, m.min_gallop)
    ELSE HiAfterB(Merging(SubSeq(m.a, 1, Len(m.a) - k), Front(m.b),
                          <<Last(m.b)>> \o Drop(m.a, Len(m.a) - k) \o m.out,
                          k, 0, m.min_gallop),
                  k,
                  Len(m.b) - 1
                      - gallop_left(m.a[Len(m.a) - k], Front(m.b), Len(m.b) - 2))

\* ... then the last of a; galloping goes on while one of the two
\* gallops took MIN_GALLOP elements or more
HiAfterB(m, ka, kb) ==
    IF (kb > 0 /\ Len(m.b) - kb <= 1) \/ Len(m.a) = 1
    THEN Merge(SubSeq(m.b, 1, Len(m.b) - kb) \o m.a
                   \o Drop(m.b, Len(m.b) - kb) \o m.out, m.min_gallop)
    ELSE IF ka >= MIN_GALLOP \/ kb >= MIN_GALLOP
    THEN HiGallop(Merging(Front(m.a), SubSeq(m.b, 1, Len(m.b) - kb),
                          <<Last(m.a)>> \o Drop(m.b, Len(m.b) - kb) \o m.out,
                          0, 0, m.min_gallop))
    ELSE HiStraight(Merging(Front(m.a), SubSeq(m.b, 1, Len(m.b) - kb),
                            <<Last(m.a)>> \o Drop(m.b, Len(m.b) - kb) \o m.out,
                            0, 0, m.min_gallop + 1))

\* merge_hi: the runs a and b, a longer than b, the last of b being below
\* the last of a; it goes from the end of the runs
merge_hi(a, b, min_gallop) ==
    IF Len(a) = 1 THEN Merge(b \o a, min_gallop)
    ELSE IF Len(b) = 1 THEN Merge(b \o a, min_gallop)
    ELSE HiStraight(Merging(Front(a), b, <<Last(a)>>, 0, 0, min_gallop))

\* the two runs without the k elements of a that are in place already and
\* without the elements of b after its first nb, likewise
Trimmed(a, b, k, nb, min_gallop) ==
    IF Len(a) - k <= nb
    THEN merge_lo(Drop(a, k), SubSeq(b, 1, nb), min_gallop)
    ELSE merge_hi(Drop(a, k), SubSeq(b, 1, nb), min_gallop)

\* ... k being the number of elements of a that the first of b belongs
\* after
MergeFrom(a, b, k, min_gallop) ==
    IF k = Len(a) THEN Merge(a \o b, min_gallop)
    ELSE LET nb == gallop_left(Last(a), b, Len(b) - 1)
             m  == Trimmed(a, b, k, nb, min_gallop)
         IN  IF nb = 0 THEN Merge(a \o b, min_gallop)
             ELSE Merge(SubSeq(a, 1, k) \o m.out \o Drop(b, nb), m.min_gallop)

\* the state of a sort: the list, the stack of the runs found (base: the
\* number of elements before the run), and min_gallop
MergeState(a, pending, min_gallop) ==
    [a |-> a, pending |-> pending, min_gallop |-> min_gallop]

\* ... with the runs a and b, one after the other in the list after base
\* elements, replaced by the result m of their merge
Merged(ms, i, base, n, m) ==
    MergeState(SubSeq(ms.a, 1, base) \o m.out \o Drop(ms.a, base + n),
               SubSeq(ms.pending, 1, i - 1)
                   \o <<[ms.pending[i] EXCEPT !.len = n]>>
                   \o Drop(ms.pending, i + 1),
               m.min_gallop)

MergeRuns(ms, i, base, a, b) ==
    Merged(ms, i, base, Len(a) + Len(b),
           MergeFrom(a, b, gallop_right(b[1], a, 0), ms.min_gallop))

\* merge_at: the runs i and i + 1 of the stack (counted from 1) merged
merge_at(ms, i) ==
    MergeRuns(ms, i, ms.pending[i].base,
              SubSeq(ms.a, ms.pending[i].base + 1,
                     ms.pending[i].base + ms.pending[i].len),
              SubSeq(ms.a, ms.pending[i + 1].base + 1,
                     ms.pending[i + 1].base + ms.pending[i + 1].len))

RECURSIVE PowerLoop(_, _, _, _)
PowerLoop(a, b, n, result) ==
    IF a >= n THEN PowerLoop(2 * (a - n), 2 * (b - n), n, result + 1)
    ELSE IF b >= n THEN result + 1
    ELSE PowerLoop(2 * a, 2 * b, n, result + 1)

\* the power of the boundary between the run of n1 elements after s1
\* elements and the next run, of n2 elements, in a list of n
powerloop(s1, n1, n2, n) == PowerLoop(2 * s1 + n1, 2 * s1 + 2 * n1 + n2, n, 0)

\* the two runs on top of the stack merged while the power of the lower
\* one is above power
RECURSIVE MergeAbove(_, _)
MergeAbove(ms, power) ==
    IF Len(ms.pending) > 1 /\ ms.pending[Len(ms.pending) - 1].power > power
    THEN MergeAbove(merge_at(ms, Len(ms.pending) - 1), power)
    ELSE [ms EXCEPT !.pending[Len(ms.pending)].power = power]

\* found_new_run: a run of n2 elements was found after the runs of the stack
found_new_run(ms, n2) ==
    IF ms.pending = <<>> THEN ms
    ELSE MergeAbove(ms, powerloop(Last(ms.pending).base, Last(ms.pending).len,
                                  n2, Len(ms.a)))

\* the run on top of the stack merged with the one below it, or the two
\* below it with each other if the third from the top is the shorter
RECURSIVE merge_force_collapse(_)
merge_force_collapse(ms) ==
    IF Len(ms.pending) <= 1 THEN ms
    ELSE IF Len(ms.pending) > 2
            /\ ms.pending[Len(ms.pending) - 2].len < Last(ms.pending).len
    THEN merge_force_collapse(merge_at(ms, Len(ms.pending) - 2))
    ELSE merge_force_collapse(merge_at(ms, Len(ms.pending) - 1))

\* the new run pushed on the stack; its power is set when the next run is
\* found
Pushed(ms, lo, n) ==
    [ms EXCEPT !.pending = Append(@, [base |-> lo, len |-> n, power |-> 0])]

\* the loop of list.sort over the runs, lo elements being in runs already
RECURSIVE Runs(_, _, _, _)
Runs(ms, lo, minrun, interpreter) ==
    IF lo = Len(ms.a) THEN ms
    ELSE LET run == NextRun(ms.a, lo, minrun, interpreter)
         IN  Runs(Pushed(found_new_run([ms EXCEPT !.a = run.a], run.n), lo, run.n),
                  lo + run.n, minrun, interpreter)

list_sort(ms, interpreter) ==
    merge_force_collapse(
        Runs(MergeState(ms, <<>>, MIN_GALLOP), 0,
             merge_compute_minrun(Len(ms)), interpreter)).a

sorted(ms, interpreter) ==
    IF Len(ms) < 2 THEN ms ELSE list_sort(ms, interpreter)

\* the dict calculate_all returns, range being get_range(self.measurements)
Results(self_measurements, self_n, range) ==
    [safe_iop       |-> calculate_safe_iop(self_measurements),
     possible_iop   |-> calculate_possible_iop(self_measurements),
     clinical_iop   |-> calculate_clinical_iop(self_measurements),
     mean_iop       |-> calculate_mean_iop(self_measurements),
     trimean_iop    |-> calculate_trimean_iop(self_measurements),
     iqm_iop        |-> calculate_iqm_iop(self_measurements),
     winsorized_iop |-> calculate_winsorized_iop(self_measurements),
     weighted_iop   |-> calculate_weighted_iop(self_measurements),
     min_iop        |-> range[1],
     max_iop        |-> range[2],
     variability    |-> get_variability(self_measurements),
     std_dev        |-> get_standard_deviation(self_measurements),
     n_measurements |-> self_n]

calculate_all(self_measurements, self_n) ==
    Results(self_measurements, self_n, get_range(self_measurements))

\* IOPCalculator.get_confidence_note(self)
calculator_get_confidence_note(self_measurements) ==
    get_confidence_note(get_variability(self_measurements))

----------------------------------------------------------------------------
(* Bounds and the inputs of the model *)

MaxTokens == 3      \* comma-separated pieces of an input text
MaxN == 4           \* length of a sample handed to the calculator directly
MaxArg == 31        \* largest argument, in mmHg, of a direct call

\* the pieces an input text is put together from
Tokens ==
    { Codes("12"),
      Codes(" 14 "),                \* blanks around the number
      Codes(""),                    \* nothing between two commas
      Codes("abc"),                 \* no number
      Codes("150") }                \* above the range

RECURSIVE JoinComma(_)
JoinComma(ts) ==
    IF ts = <<>> THEN <<>>
    ELSE IF Len(ts) = 1 THEN ts[1]
    ELSE ts[1] \o <<44>> \o JoinComma(Tail(ts))

\* texts with the other things str.strip() and float() accept or refuse
Texts ==
    { Codes(" "),
      Codes(" \t "),                               \* blank, tab, blank
      Codes("12\n,13,14"),                         \* a line break after 12
      <<1635, 44, 65297, 44, 50>>,                 \* 3 and 1 in other scripts
      <<160, 49, 50, 44, 12288, 49, 51, 44, 49, 52, 8195>>,  \* other spaces
      Codes("100.0004,1,2"),                       \* just above the range
      Codes("12.3456,1,2"),
      Codes("+12.5,1e1,1_0"),
      Codes("1__0,12,14"),
      Codes("inf,1,2"),
      Codes("-Infinity"),
      Codes("nan,12,14"),
      Codes("14,12,nan"),                          \* sorted by the interpreter
      Codes("nan,14,12"),
      Codes("NaN,nan"),
      Codes("-1"),
      Codes("-1,150"),
      Codes("150,-1"),
      Codes("-1,abc"),
      Codes("-0.0004,1,2"),
      Codes("12,,13, ,14"),
      Codes("10, abc, 12"),
      Codes("10, 12, 150"),
      Codes("10, 12"),
      Codes("12, 14, 13, 15, 12"),
      Codes("14, 100, 0"),                         \* the two bounds
      Codes("0,0,0"),
      Codes("100,abc,0"),
      Codes("0,100,150"),
      Codes("12.05,12.05,12.05"),
      Codes("0.1,2.9,19.6"),
      <<73553, 44, 50, 44, 51>>,                   \* U+11F51, a digit 1 since Unicode 15
      <<73552>>,                                   \* U+11F50, a digit 0 since Unicode 15
      <<124145, 50, 44, 49, 51, 44, 49, 52>>,      \* U+1E4F1, likewise, then 2
      <<49, 233, 50, 44, 49, 51, 44, 49, 52>>,     \* 1, e with an accent, 2
      <<49, 50, 127, 44, 49, 51, 44, 49, 52>> }    \* 12, then the character DEL

Inputs ==
    {JoinComma(ts) : ts \in UNION {[1..k -> Tokens] : k \in 0..MaxTokens}}
        \cup Texts

\* the list of the floats nearest to the given numbers of thousandths
Sample(vs) == SubSeq([i \in 1..Len(vs) |-> D(vs[i])], 1, Len(vs))

\* values of the samples handed to the calculator directly (thousandths)
SampleValues == {12000, 12340}

\* the samples of the specification's examples, samples at the bounds,
\* samples whose sums and differences are not exact in binary, and
\* samples with a NaN, which validation lets through
Examples ==
    {Sample(vs) : vs \in
        { <<12000, 14000, 13000, 15000, 12000>>,
          <<14000, 14000, 14000, 14000>>,
          <<0, 0, 0>>,
          <<100000, 100000, 100000>>,
          <<100000, 0, 50000>>,
          <<21000, 20960, 9900>>,
          <<30000, 24000, 21000, 10000, 8000, 6000>>,
          <<10040, 12080, 11000>>,
          <<12000, 12000, 14000, 20000>>,
          <<12000, 12000, 12000, 14000, 14000>>,
          <<100, 2900, 19600>>,
          <<12000, 12000, 14050>>,
          <<12050, 12050, 12050>>,
          <<12000, 12050, 12070>>,
          <<1900, 6600, 17100, 41700>>,
          <<350, 350, 350>>,
          <<12000, 12015, 12030>>,
          <<100, 100, 19600, 19600>>,
          <<12000, 20000, 12000>>,
          \* trimmed means of 0.05 below a boundary: the float is b - 0.05
          <<5950, 3, 5969>>, <<7950, 62, 7973>>, <<9950, 55, 9956>>,
          <<20950, 55, 21077>>, <<23950, 225, 23999>>, <<29950, 76, 29987>>,
          \* ... and the float is below b - 0.05
          <<5950, 4, 5958>>, <<7950, 99, 7982>>, <<7950, 79, 7952>>,
          <<9950, 72, 10068>>, <<20950, 93, 21009>>, <<23950, 93, 24033>>,
          <<29950, 24, 29978>> }}
        \cup { <<FNaN, D(12000), D(14000)>>,
               <<D(14000), D(12000), FNaN>>,
               <<D(15000), D(13000), FNaN, D(12000)>> }

Samples ==
    UNION {[1..k -> {D(v) : v \in SampleValues}] : k \in MIN_MEASUREMENTS..MaxN}
        \cup Examples

----------------------------------------------------------------------------
(* app_main.py: main() *)

\* the methods of IOPCalculator, and the functions they hand the sample to
Methods ==
    {"calculate_safe_iop", "calculate_possible_iop", "calculate_clinical_iop",
     "calculate_mean_iop", "calculate_trimean_iop", "calculate_iqm_iop",
     "calculate_winsorized_iop", "calculate_weighted_iop", "get_range",
     "get_variability", "get_standard_deviation", "calculate_all",
     "interpret_iop", "get_confidence_note"}

\* no method has been called
NoCalls == [m \in Methods |-> <<>>]

NoResults == [none |-> TRUE]
NoView == [view |-> "none"]

Init ==
    /\ python \in Interpreters
    /\ iop_input \in Inputs
    /\ calculate_button \in BOOLEAN
    /\ pc = "start"
    /\ measurements = <<>>
    /\ calc_measurements = <<>>
    /\ calc_n = 0
    /\ results = NoResults
    /\ interpretation = ""
    /\ confidence = ""
    /\ error = NoError
    /\ displayed = NoView
    /\ arg = 0
    /\ returned = NoCalls

\* else: display_welcome_screen()
Welcome ==
    /\ pc = "start"
    /\ ~calculate_button
    /\ displayed' = [view |-> "welcome"]
    /\ pc' = "done"
    /\ UNCHANGED <<python, iop_input, calculate_button, measurements, calc_measurements,
                   calc_n, results, interpretation, confidence, error, arg, returned>>

\* if not iop_input.strip(): st.error(...); return
EmptyInput ==
    /\ pc = "start"
    /\ calculate_button
    /\ Strip(iop_input) = <<>>
    /\ error' = Message("please_enter", FZero(0), 0)
    /\ displayed' = [view |-> "error", message |-> error']
    /\ pc' = "done"
    /\ UNCHANGED <<python, iop_input, calculate_button, measurements, calc_measurements,
                   calc_n, results, interpretation, confidence, arg, returned>>

\* the list is bound to measurements, or the ValueError is shown
Validated(r) ==
    IF r.ok
    THEN /\ measurements' = r.values
         /\ pc' = "validated"
         /\ UNCHANGED <<error, displayed>>
    ELSE /\ error' = r.error
         /\ displayed' = [view |-> "error", message |-> r.error]
         /\ pc' = "done"
         /\ UNCHANGED measurements

\* measurements = validate_measurements(iop_input), or except ValueError
Validate ==
    /\ pc = "start"
    /\ calculate_button
    /\ Strip(iop_input) # <<>>
    /\ Validated(validate_measurements(iop_input, python))
    /\ UNCHANGED <<python, iop_input, calculate_button, calc_measurements, calc_n,
                   results, interpretation, confidence, arg, returned>>

\* calculator = IOPCalculator(measurements), or except ValueError:
\* self.measurements = np.array(sorted(measurements)), a new array with the
\* elements of a new list, and self.n = len(self.measurements)
Construct ==
    /\ pc = "validated"
    /\ IF Len(measurements) < 3
       THEN /\ error' = Message("constructor", FZero(0), 0)
            /\ displayed' = [view |-> "error", message |-> error']
            /\ pc' = "done"
            /\ UNCHANGED <<calc_measurements, calc_n>>
       ELSE /\ calc_measurements' = sorted(measurements, python)
            /\ calc_n' = Len(calc_measurements')
            /\ pc' = "constructed"
            /\ UNCHANGED <<error, displayed>>
    /\ UNCHANGED <<python, iop_input, calculate_button, measurements, results,
                   interpretation, confidence, arg, returned>>

\* the methods that reach calculate_winsorized_iop, the one function with
\* statements that write to an array; the other functions hand the array
\* to functions of numpy that return new objects
WinsorizingMethods == {"calculate_winsorized_iop", "calculate_all"}

\* the arrays of the heap after a call of the method m of the calculator
\* whose self.measurements is the array at the index a; the arrays made
\* during the call are gone when it returns
ArraysAfter(m, heap, a) ==
    IF m \in WinsorizingMethods /\ Len(heap[a]) >= 3
    THEN SubSeq(Winsorized(heap, a), 1, Len(heap))
    ELSE heap

\* results = calculator.calculate_all()
CalculateAll ==
    /\ pc = "constructed"
    /\ results' = calculate_all(calc_measurements, calc_n)
    /\ calc_measurements' = ArraysAfter("calculate_all", <<calc_measurements>>, 1)[1]
    /\ pc' = "calculated"
    /\ UNCHANGED <<python, iop_input, calculate_button, measurements, calc_n,
                   interpretation, confidence, error, displayed, arg, returned>>

\* a variant that interprets the trimmed mean before it is rounded to one
\* decimal (kept to the thousandth)
InterpretIop_before_rounding ==
    /\ pc = "calculated"
    /\ interpretation' =
          interpret_iop(round(FDiv(FSub(FSub(np_sum(calc_measurements),
                                             np_min(calc_measurements)),
                                        np_max(calc_measurements)),
                                   FromInt(calc_n - 2)), 3))
    /\ pc' = "interpreted"
    /\ UNCHANGED <<python, iop_input, calculate_button, measurements, calc_measurements,
                   calc_n, results, confidence, error, displayed, arg, returned>>

\* interpretation = calculator.interpret_iop(results['safe_iop'])
InterpretIop ==
    /\ pc = "calculated"
    /\ interpretation' = interpret_iop(results.safe_iop)
    /\ pc' = "interpreted"
    /\ UNCHANGED <<python, iop_input, calculate_button, measurements, calc_measurements,
                   calc_n, results, confidence, error, displayed, arg, returned>>

\* confidence = calculator.get_confidence_note()
GetConfidenceNote ==
    /\ pc = "interpreted"
    /\ confidence' = calculator_get_confidence_note(calc_measurements)
    /\ pc' = "assessed"
    /\ UNCHANGED <<python, iop_input, calculate_button, measurements, calc_measurements,
                   calc_n, results, interpretation, error, displayed, arg, returned>>

\* display_statistics(res): the descriptive statistics, and the call that
\* reports the variability: st.success up to 2, st.info up to 4, st.warning
\* up to 6 and st.error above 6 or when the variability is NaN
display_statistics(res) ==
    [n_measurements |-> res.n_measurements,
     min_iop        |-> res.min_iop,
     max_iop        |-> res.max_iop,
     variability    |-> res.variability,
     std_dev        |-> res.std_dev,
     call           |-> IF FLe(res.variability, FromInt(2)) THEN "st.success"
                        ELSE IF FLe(res.variability, FromInt(4)) THEN "st.info"
                        ELSE IF FLe(res.variability, FromInt(6)) THEN "st.warning"
                        ELSE "st.error"]

\* st.header("Results"), shown once the results are there,
\* display_primary_result(...), display_secondary_estimates(results),
\* display_statistics(results), the recap of the raw measurements and
\* st.success("Calculation completed successfully.").  No statement of the
\* try block raises another exception than the ValueErrors above, so that
\* the handler of Exception has no action.
Display ==
    /\ pc = "assessed"
    /\ displayed' = [view |-> "results",
                     header |-> "Results",
                     safe_iop |-> results.safe_iop,
                     interpretation |-> interpretation,
                     confidence |-> confidence,
                     results |-> results,
                     statistics |-> display_statistics(results),
                     raw |-> measurements,
                     total |-> Len(measurements),
                     success |-> "Calculation completed successfully."]
    /\ pc' = "done"
    /\ UNCHANGED <<python, iop_input, calculate_button, measurements, calc_measurements,
                   calc_n, results, interpretation, confidence, error, arg, returned>>

Next ==
    \/ Welcome
    \/ EmptyInput
    \/ Validate
    \/ Construct
    \/ CalculateAll
    \/ InterpretIop
    \/ GetConfidenceNote
    \/ Display

Spec == Init /\ [][Next]_vars

----------------------------------------------------------------------------
(* The calculator on the lists the validator can return *)

InitCalc ==
    /\ python \in Interpreters
    /\ iop_input = <<>>
    /\ calculate_button = TRUE
    /\ pc = "validated"
    /\ measurements \in Samples
    /\ calc_measurements = <<>>
    /\ calc_n = 0
    /\ results = NoResults
    /\ interpretation = ""
    /\ confidence = ""
    /\ error = NoError
    /\ displayed = NoView
    /\ arg = 0
    /\ returned = NoCalls

NextCalc ==
    \/ Construct
    \/ CalculateAll
    \/ InterpretIop
    \/ GetConfidenceNote
    \/ Display

SpecCalc == InitCalc /\ [][NextCalc]_vars

----------------------------------------------------------------------------
(* Direct calls of the two interpretation functions *)

\* arguments around and beyond the upper end of the table (thousandths)
LargeArgs == {99900, 99999, 100000, 100001, 150000}

\* the floats next to the boundaries 21 and 2, and the infinite float
FloatArgs ==
    { Float(Codes("20.999999999999996"), "CPython 3.13").v,
      Float(Codes("21.000000000000004"), "CPython 3.13").v,
      Float(Codes("2.0000000000000004"), "CPython 3.13").v,
      Float(Codes("1.9999999999999998"), "CPython 3.13").v,
      FInf(0) }

\* interpret_iop and get_confidence_note take a float, read no text and
\* sort no list, so that they do the same under every interpreter
InitFn ==
    /\ python = "CPython 3.13"
    /\ iop_input = <<>>
    /\ calculate_button = FALSE
    /\ pc = "call"
    /\ measurements = <<>>
    /\ calc_measurements = <<>>
    /\ calc_n = 0
    /\ results = NoResults
    /\ interpretation = ""
    /\ confidence = ""
    /\ error = NoError
    /\ displayed = NoView
    /\ arg \in {D(v) : v \in (0..(MaxArg * 1000)) \cup LargeArgs} \cup FloatArgs
    /\ returned = NoCalls

CallInterpretIop ==
    /\ pc = "call"
    /\ interpretation' = interpret_iop(arg)
    /\ pc' = "interpret_iop"
    /\ UNCHANGED <<python, iop_input, calculate_button, measurements, calc_measurements,
                   calc_n, results, confidence, error, displayed, arg, returned>>

CallGetConfidenceNote ==
    /\ pc = "call"
    /\ confidence' = get_confidence_note(arg)
    /\ pc' = "get_confidence_note"
    /\ UNCHANGED <<python, iop_input, calculate_button, measurements, calc_measurements,
                   calc_n, results, interpretation, error, displayed, arg, returned>>

NextFn == CallInterpretIop \/ CallGetConfidenceNote

SpecFn == InitFn /\ [][NextFn]_vars

----------------------------------------------------------------------------
(* Direct calls of calculate_iqm_iop and calculate_mean_iop on one array *)

MaxIqmN == 8        \* length of an array handed to the two estimators

\* values of the arrays handed to the two estimators (thousandths)
ArrayValues == {12000, 12340, 20000}

\* the ascending arrays of 1 to MaxIqmN of these values
AscendingArrays ==
    {Sample(a) : a \in
        {b \in UNION {[1..k -> ArrayValues] : k \in 1..MaxIqmN} :
            \A i \in 1..(Len(b) - 1) : b[i] <= b[i + 1]}}

\* the two estimators take an array, read no text and sort no list
InitIqm ==
    /\ python = "CPython 3.13"
    /\ iop_input = <<>>
    /\ calculate_button = FALSE
    /\ pc = "call"
    /\ measurements = <<>>
    /\ calc_measurements = <<>>
    /\ calc_n = 0
    /\ results = NoResults
    /\ interpretation = ""
    /\ confidence = ""
    /\ error = NoError
    /\ displayed = NoView
    /\ arg \in AscendingArrays
    /\ returned = NoCalls

CallCalculateIqmIop ==
    /\ pc = "call"
    /\ results' = [iqm_iop |-> calculate_iqm_iop(arg)]
    /\ pc' = "calculate_iqm_iop"
    /\ UNCHANGED <<python, iop_input, calculate_button, measurements, calc_measurements,
                   calc_n, interpretation, confidence, error, displayed, arg, returned>>

CallCalculateMeanIop ==
    /\ pc = "calculate_iqm_iop"
    /\ results' = [iqm_iop |-> results.iqm_iop,
                   mean_iop |-> calculate_mean_iop(arg)]
    /\ pc' = "calculate_mean_iop"
    /\ UNCHANGED <<python, iop_input, calculate_button, measurements, calc_measurements,
                   calc_n, interpretation, confidence, error, displayed, arg, returned>>

NextIqm == CallCalculateIqmIop \/ CallCalculateMeanIop

SpecIqm == InitIqm /\ [][NextIqm]_vars

----------------------------------------------------------------------------
(* Calls of the methods of a constructed calculator, in any order *)

MaxCalls == 3       \* calls made on one calculator

\* the lists a calculator is constructed from: the example of the
\* documentation and a list of the smallest length, neither in order
CallSamples ==
    { Sample(<<12000, 14000, 13000, 15000, 12000>>),
      Sample(<<21000, 20960, 9900>>) }

\* what the method m of a calculator returns (iop_calculator.py:61-138);
\* interpret_iop is given the Safe IOP, as main() does
Invoke(m, self_measurements, self_n) ==
    CASE m = "calculate_safe_iop"       -> calculate_safe_iop(self_measurements)
      [] m = "calculate_possible_iop"   -> calculate_possible_iop(self_measurements)
      [] m = "calculate_clinical_iop"   -> calculate_clinical_iop(self_measurements)
      [] m = "calculate_mean_iop"       -> calculate_mean_iop(self_measurements)
      [] m = "calculate_trimean_iop"    -> calculate_trimean_iop(self_measurements)
      [] m = "calculate_iqm_iop"        -> calculate_iqm_iop(self_measurements)
      [] m = "calculate_winsorized_iop" -> calculate_winsorized_iop(self_measurements)
      [] m = "calculate_weighted_iop"   -> calculate_weighted_iop(self_measurements)
      [] m = "get_range"                -> get_range(self_measurements)
      [] m = "get_variability"          -> get_variability(self_measurements)
      [] m = "get_standard_deviation"   -> get_standard_deviation(self_measurements)
      [] m = "calculate_all"            -> calculate_all(self_measurements, self_n)
      [] m = "interpret_iop"            ->
             interpret_iop(calculate_safe_iop(self_measurements))
      [] m = "get_confidence_note"      ->
             calculator_get_confidence_note(self_measurements)

\* the number of calls made so far
CallsOf(r, ms) == Sigma([m \in ms |-> Len(r[m])])

\* the lists hold no NaN, so that every interpreter sorts them alike
InitCalls ==
    /\ python = "CPython 3.13"
    /\ iop_input = <<>>
    /\ calculate_button = TRUE
    /\ pc = "validated"
    /\ measurements \in CallSamples
    /\ calc_measurements = <<>>
    /\ calc_n = 0
    /\ results = NoResults
    /\ interpretation = ""
    /\ confidence = ""
    /\ error = NoError
    /\ displayed = NoView
    /\ arg = 0
    /\ returned = NoCalls

\* calculator.<m>(): the value returned is recorded after the earlier
\* ones; the heap of the call holds the array of the calculator and the
\* list of the caller.  No method assigns to self.n.
CallMethod(m) ==
    /\ pc = "constructed"
    /\ CallsOf(returned, Methods) < MaxCalls
    /\ returned' = [returned EXCEPT
                       ![m] = Append(@, Invoke(m, calc_measurements, calc_n))]
    /\ \E heap \in {ArraysAfter(m, <<calc_measurements, measurements>>, 1)} :
          calc_measurements' = heap[1] /\ measurements' = heap[2]
    /\ UNCHANGED <<python, iop_input, calculate_button, pc, calc_n, results,
                   interpretation, confidence, error, displayed, arg>>

NextCalls ==
    \/ Construct
    \/ \E m \in Methods : CallMethod(m)

SpecCalls == InitCalls /\ [][NextCalls]_vars

----------------------------------------------------------------------------
(* Properties.                                                             *)
(* Decimal statements about a float x are made about Milli(x), the number  *)
(* of thousandths of a mmHg nearest to x; a float written with at most     *)
(* three decimals is the float nearest to Milli(x) / 1000.                 *)

\* thousandths in one unit of the d-th decimal
Step(d) == 10^(3 - d)

\* Milli of the float NaN, and of a float beyond +-10^5
NotANumber == -(10^9)
Beyond == 10^8

Milli(x) ==
    IF FIsNaN(x) THEN NotANumber
    ELSE IF FIsInf(x) \/ FGe(FAbs(x), FromInt(10^5))
         THEN (IF x.s = 1 THEN -Beyond ELSE Beyond)
    ELSE (IF x.s = 1 THEN -1 ELSE 1) * Floor(FRint(FMul(FAbs(x), FromInt(1000))))

\* (SubSeq makes a tuple of the function, so that each element is
\* computed once)
View(ms) == SubSeq([i \in 1..Len(ms) |-> Milli(ms[i])], 1, Len(ms))

\* x is a number written with at most three decimals
IsDecimal(x) == FEq(x, D(Milli(x)))

\* every value is a number of [0, 100]; NaN is none
ValidSample(ms) ==
    /\ Len(ms) >= MIN_MEASUREMENTS
    /\ \A i \in 1..Len(ms) :
          FLe(FromInt(MIN_IOP_VALUE), ms[i]) /\ FLe(ms[i], FromInt(MAX_IOP_VALUE))

\* ... written with at most three decimals
DecimalSample(ms) ==
    ValidSample(ms) /\ \A i \in 1..Len(ms) : IsDecimal(ms[i])

\* the eight estimates of a result record, in thousandths
Estimates(r) ==
    {Milli(r.safe_iop), Milli(r.possible_iop), Milli(r.clinical_iop),
     Milli(r.mean_iop), Milli(r.trimean_iop), Milli(r.iqm_iop),
     Milli(r.winsorized_iop), Milli(r.weighted_iop)}

\* on sequences of integers (thousandths)
AllTenths(vs) == \A i \in 1..Len(vs) : vs[i] % Step(1) = 0
MinOf(vs) == Least({vs[i] : i \in 1..Len(vs)})
MaxOf(vs) == Greatest({vs[i] : i \in 1..Len(vs)})
SumOf(vs) == Sigma([i \in 1..Len(vs) |-> vs[i] - MinOf(vs)]) + Len(vs) * MinOf(vs)
Ascending(vs) ==
    LET pos(i) == Cardinality({j \in 1..Len(vs) :
                                  vs[j] < vs[i] \/ (vs[j] = vs[i] /\ j <= i)})
    IN  SubSeq([k \in 1..Len(vs) |-> vs[CHOOSE i \in 1..Len(vs) : pos(i) = k]],
               1, Len(vs))

\* C1 as claimed: every one of the eight estimates of a validated sample
\* lies between the minimum and the maximum of the sample, inclusive.
C1_Original ==
    (results # NoResults /\ DecimalSample(measurements)) =>
        LET vs == View(measurements)
        IN  \A e \in Estimates(results) : MinOf(vs) <= e /\ e <= MaxOf(vs)

\* C1 as amended: every estimate, being rounded to one decimal, lies within
\* 0.05 mmHg of the interval [min, max] of the sample, and lies inside the
\* interval when every value of the sample is a multiple of 0.1 mmHg.
C1_RoundedWithinRange ==
    (results # NoResults /\ DecimalSample(measurements)) =>
        LET vs == View(measurements)
        IN  \A e \in Estimates(results) :
                /\ 2 * (MinOf(vs) - e) <= Step(1)
                /\ 2 * (e - MaxOf(vs)) <= Step(1)
                /\ AllTenths(vs) => MinOf(vs) <= e /\ e <= MaxOf(vs)

C1_Witness ==
    /\ pc = "calculated"
    /\ measurements = Sample(<<12000, 12340, 12340>>)
    /\ ~AllTenths(View(measurements))
    /\ FLt(np_min(measurements), results.weighted_iop)
    /\ FLt(results.weighted_iop, results.safe_iop)
    /\ FLt(results.safe_iop, np_max(measurements))

IsAscending(ms) == \A i \in 1..(Len(ms) - 1) : ~FLt(ms[i + 1], ms[i])

Count(ms, v) == Cardinality({i \in 1..Len(ms) : ms[i] = v})
IsPermutation(a, b) ==
    /\ Len(a) = Len(b)
    /\ \A i \in 1..Len(a) : Count(a, a[i]) = Count(b, a[i])

\* the pieces of a text between commas that are not blank, in order
Pieces(text) == SelectSeq(Split(text), LAMBDA x : Strip(x) # <<>>)
\* their values as float() reads them under the interpreter (0 for a
\* piece it refuses)
PieceValues(text, interpreter) ==
    LET ps == Pieces(text)
    IN  SubSeq([i \in 1..Len(ps) |-> Float(ps[i], interpreter).v], 1, Len(ps))
AllPiecesParse(text, interpreter) ==
    LET ps == Pieces(text) IN \A i \in 1..Len(ps) : Float(ps[i], interpreter).ok

\* validate_measurements has been called in this run
ValidationRan == calculate_button /\ pc # "start" /\ Strip(iop_input) # <<>>
\* ... and has returned a list
ValidationSucceeded == ValidationRan /\ error = NoError
\* the calculator has been constructed
Constructed == pc \in {"constructed", "calculated", "interpreted", "assessed"}
                  \/ (pc = "done" /\ results # NoResults)

\* C2: the list validate_measurements returns is in ascending order and
\* is a permutation of the parsed values.
C2_Original ==
    ValidationSucceeded =>
        /\ IsAscending(measurements)
        /\ IsPermutation(measurements, PieceValues(iop_input, python))

\* the pieces whose value is below 0 or above 100
Offending(vals) ==
    {i \in 1..Len(vals) :
        FLt(vals[i], FromInt(0)) \/ FGt(vals[i], FromInt(100))}

\* C3: validation fails with the range error exactly when the text parses
\* and one of its values is below 0 or above 100 (0 and 100 themselves are
\* accepted); the error reports an offending value and no sample is returned.
C3_RangeError ==
    ValidationRan =>
        LET vals      == PieceValues(iop_input, python)
            parsed    == Len(vals) > 0 /\ AllPiecesParse(iop_input, python)
        IN  /\ error.kind = "range" <=> (parsed /\ Offending(vals) # {})
            /\ error.kind = "range" =>
                  /\ error.val \in {vals[i] : i \in Offending(vals)}
                  /\ measurements = <<>>
                  /\ results = NoResults
                  /\ pc = "done"

C3_Witness ==
    /\ pc = "done"
    /\ iop_input = Codes("100.0004,1,2")
    /\ error.kind = "range"
    /\ FGt(error.val, FromInt(100))
    /\ Milli(error.val) = 100000

\* C4: when every piece of the text parses to a value in [0, 100],
\* validation fails with the count error, which reports the count, exactly
\* when fewer than 3 values remain, and returns all the values otherwise;
\* a sample that reaches the estimators has at least 3 values.
C4_CountError ==
    /\ ValidationRan =>
          LET vals  == PieceValues(iop_input, python)
              valid == /\ Len(vals) > 0
                       /\ AllPiecesParse(iop_input, python)
                       /\ \A i \in 1..Len(vals) :
                             FLe(FromInt(0), vals[i]) /\ FLe(vals[i], FromInt(100))
          IN  valid =>
                /\ error.kind = "count" <=> Len(vals) < 3
                /\ error.kind = "count" =>
                      error.n = Len(vals) /\ measurements = <<>>
                /\ Len(vals) >= 3 =>
                      error = NoError /\ Len(measurements) = Len(vals)
    /\ Constructed => Len(calc_measurements) >= 3 /\ calc_n >= 3
    /\ results # NoResults => results.n_measurements >= 3

C4_Witness ==
    /\ pc = "done"
    /\ error = Message("count", FZero(0), 2)
    /\ iop_input = Codes("10, 12")
    /\ PieceValues(iop_input, python) = Sample(<<10000, 12000>>)

\* a decimal number: an optional sign, digits with at most one point, at
\* least one digit
IsDecimalNumber(tok) ==
    LET t    == Strip(tok)
        body == IF t # <<>> /\ Head(t) \in {43, 45} THEN Tail(t) ELSE t
        pts  == {i \in 1..Len(body) : body[i] = 46}
    IN  /\ Cardinality(pts) <= 1
        /\ \A i \in 1..Len(body) : body[i] \in Digits(python) \cup {46}
        /\ \E i \in 1..Len(body) : body[i] \in Digits(python)

\* C5 as claimed: the text is split on commas, the pieces are trimmed and
\* the blank ones dropped; if no piece remains or one of them is not a
\* valid decimal number, validation fails with a parse error and returns no
\* values; otherwise the values parsed are those of the pieces.
C5_ParseError ==
    ValidationRan =>
        LET ps == Pieces(iop_input)
        IN  IF ps = <<>> \/ \E i \in 1..Len(ps) : ~IsDecimalNumber(ps[i])
            THEN error.kind \in ParseErrors /\ measurements = <<>>
            ELSE /\ error.kind \notin ParseErrors
                 /\ error = NoError => measurements = PieceValues(iop_input, python)

\* the calculator has been used in this run
CalculatorInvoked ==
    \/ pc \in {"constructed", "calculated", "interpreted", "assessed"}
    \/ calc_n # 0
    \/ calc_measurements # <<>>
    \/ results # NoResults
    \/ interpretation # ""
    \/ confidence # ""

\* C6: the calculator is constructed and used only after
\* validate_measurements has succeeded on the input; when validation fails
\* the run ends with the error message alone, no estimate, category or
\* confidence label having been produced; and the constructor's own count
\* check never raises.
C6_ValidateBeforeCalculate ==
    /\ LET r == validate_measurements(iop_input, python)
       IN  /\ CalculatorInvoked =>
                 /\ ValidationRan
                 /\ r.ok
                 /\ measurements = r.values
                 /\ error = NoError
           /\ (ValidationRan /\ ~r.ok) =>
                 /\ pc = "done"
                 /\ ~CalculatorInvoked
                 /\ error = r.error
                 /\ displayed = [view |-> "error", message |-> error]
    /\ displayed.view = "results" => CalculatorInvoked /\ error = NoError
    /\ error.kind # "constructor"

C6_Witness ==
    /\ pc = "done"
    /\ error = Message("count", FZero(0), 2)
    /\ displayed = [view |-> "error", message |-> error]
    /\ ~CalculatorInvoked

\* the table of the clinical categories as the specification states it:
\* [lo, hi) in mmHg, the last one open-ended (hi = -1)
CategoryTable ==
    << [lo |-> 0,  hi |-> 6,  label |-> "Severe Hypotony"],
       [lo |-> 6,  hi |-> 8,  label |-> "Moderate Hypotony"],
       [lo |-> 8,  hi |-> 10, label |-> "Mild Hypotony"],
       [lo |-> 10, hi |-> 21, label |-> "Normal Range"],
       [lo |-> 21, hi |-> 24, label |-> "Borderline Elevated"],
       [lo |-> 24, hi |-> 30, label |-> "Elevated"],
       [lo |-> 30, hi |-> -1, label |-> "Severely Elevated"] >>

\* the categories whose interval holds the float v
CategoriesOf(v) ==
    {i \in 1..Len(CategoryTable) :
        /\ FLe(FromInt(CategoryTable[i].lo), v)
        /\ CategoryTable[i].hi = -1 \/ FLt(v, FromInt(CategoryTable[i].hi))}

IsCategoryOf(label, v) ==
    /\ Cardinality(CategoriesOf(v)) = 1
    /\ \A i \in CategoriesOf(v) : label = CategoryTable[i].label

\* the confidence tiers as the specification states them
IsConfidenceOf(label, r) ==
    label = IF FLe(r, FromInt(2))
            THEN "Excellent measurement consistency - High confidence"
            ELSE IF FLe(r, FromInt(4))
            THEN "Good measurement consistency - Moderate confidence"
            ELSE IF FLe(r, FromInt(6))
            THEN "Fair measurement consistency - Consider additional measurements"
            ELSE "High variability detected - Additional measurements recommended"

\* C7: for a value v >= 0, interpret_iop returns the label of the one
\* half-open interval [lo, hi) of the table that holds v; a value on a
\* boundary is in the upper category and every value >= 30 is Severely
\* Elevated.
C7_HalfOpenIntervals ==
    (pc = "interpret_iop" /\ FGe(arg, FromInt(0))) =>
        /\ IsCategoryOf(interpretation, arg)
        /\ FGe(arg, FromInt(30)) => interpretation = "Severely Elevated"

C7_Witness ==
    /\ pc = "interpret_iop"
    /\ arg = D(21000)
    /\ interpretation = "Borderline Elevated"

\* C8: for a range r >= 0, get_confidence_note returns the excellent label
\* if r <= 2, the good one if 2 < r <= 4, the fair one if 4 < r <= 6 and the
\* high-variability one, which recommends additional measurements, if r > 6.
C8_ConfidenceTiers ==
    (pc = "get_confidence_note" /\ FGe(arg, FromInt(0))) =>
        IsConfidenceOf(confidence, arg)

C8_Witness ==
    /\ pc = "get_confidence_note"
    /\ arg = D(4000)
    /\ confidence = "Good measurement consistency - Moderate confidence"

ResultFields ==
    {"safe_iop", "possible_iop", "clinical_iop", "mean_iop", "trimean_iop",
     "iqm_iop", "winsorized_iop", "weighted_iop", "min_iop", "max_iop",
     "variability", "std_dev", "n_measurements"}

\* C9: the result calculate_all returns for a validated sample has
\* exactly the 13 fields, n_measurements being the length of the sample,
\* and comes with the two advisory strings: the category of its Safe IOP
\* and the confidence label of its range.
C9_Original ==
    results # NoResults =>
        /\ DOMAIN results = ResultFields
        /\ results.n_measurements = Len(measurements)
        /\ interpretation = interpret_iop(results.safe_iop)
        /\ confidence = get_confidence_note(results.variability)

\* the middle value of a sample of three (thousandths)
Middle(vs) == Ascending(vs)[2]

\* C10 as claimed: for a sample of exactly 3 values the Safe IOP and the
\* Winsorized IOP both equal the middle value of the sample.
C10_Original ==
    (results # NoResults /\ DecimalSample(measurements) /\ Len(measurements) = 3) =>
        /\ Milli(results.safe_iop) = Middle(View(measurements))
        /\ Milli(results.winsorized_iop) = Middle(View(measurements))

\* C10 as amended: for a sample of exactly 3 values the Safe IOP and the
\* Winsorized IOP, being rounded to one decimal, both lie within 0.05 mmHg
\* of the middle value, and both equal it when it is a multiple of 0.1 mmHg,
\* duplicates of the minimum or the maximum included.
C10_MiddleOfThree ==
    (results # NoResults /\ DecimalSample(measurements) /\ Len(measurements) = 3) =>
        LET mid == Middle(View(measurements))
        IN  \A e \in {Milli(results.safe_iop), Milli(results.winsorized_iop)} :
                /\ 2 * Abs(e - mid) <= Step(1)
                /\ mid % Step(1) = 0 => e = mid

C10_Witness ==
    /\ pc = "calculated"
    /\ measurements = Sample(<<12000, 20000, 12000>>)
    /\ results.safe_iop = D(12000)
    /\ results.winsorized_iop = D(12000)
    /\ results.mean_iop = D(14700)

\* every value of the sample is the same
AllEqual(vs) == \A i \in 1..Len(vs) : vs[i] = vs[1]

\* C11 as claimed: for a sample whose values all equal v, each of the eight
\* estimates is v, and the variability and the standard deviation are 0.
C11_Original ==
    (results # NoResults /\ DecimalSample(measurements)
                         /\ AllEqual(View(measurements))) =>
        /\ \A e \in Estimates(results) : e = Milli(measurements[1])
        /\ FEq(results.variability, FromInt(0))
        /\ FEq(results.std_dev, FromInt(0))

\* C11 as amended: for a sample whose values all equal v, each of the eight
\* estimates is within 0.05 mmHg of v (it is v rounded to one decimal) and
\* is v itself when v is a multiple of 0.1 mmHg; the variability and the
\* standard deviation are 0.
C11_AllEqualRounded ==
    (results # NoResults /\ DecimalSample(measurements)
                         /\ AllEqual(View(measurements))) =>
        LET v == Milli(measurements[1])
        IN  /\ \A e \in Estimates(results) :
                  /\ 2 * Abs(e - v) <= Step(1)
                  /\ v % Step(1) = 0 => e = v
            /\ FEq(results.variability, FromInt(0))
            /\ FEq(results.std_dev, FromInt(0))

C11_Witness ==
    /\ pc = "calculated"
    /\ measurements = Sample(<<12050, 12050, 12050>>)
    /\ Estimates(results) = {12000, 12100}
    /\ results.mean_iop = D(12100)
    /\ results.possible_iop = D(12000)
    /\ results.std_dev = FZero(0)

\* a rounded result e is the quotient num / den (den > 0) rounded to a
\* multiple of step: it is within half a step of the quotient, and is the
\* quotient itself when that is a multiple of step
IsRounded(e, num, den, step) ==
    /\ 2 * Abs(e * den - num) <= step * den
    /\ num % (den * step) = 0 => e * den = num

\* sum of all values - min - max, the numerator of the trimmed mean
TrimmedSum(vs) == SumOf(vs) - MinOf(vs) - MaxOf(vs)

\* C12 as claimed: Safe IOP is (sum of all values - min - max) / (n - 2).
C12_Original ==
    (results # NoResults /\ DecimalSample(measurements)) =>
        Milli(results.safe_iop) * (Len(measurements) - 2)
            = TrimmedSum(View(measurements))

\* C12 as amended: Safe IOP is (sum of all values - min - max) / (n - 2)
\* rounded to one decimal; one occurrence of the minimum and one of the
\* maximum leave the sum, so that further occurrences stay in the average.
C12_TrimmedMeanRounded ==
    (results # NoResults /\ DecimalSample(measurements)) =>
        /\ IsRounded(Milli(results.safe_iop), TrimmedSum(View(measurements)),
                     Len(measurements) - 2, Step(1))
        /\ results.safe_iop = D(Milli(results.safe_iop))

C12_Witness ==
    /\ pc = "calculated"
    /\ measurements = Sample(<<12000, 14000, 13000, 15000, 12000>>)
    /\ results.safe_iop = D(13000)

\* floor(n / 4) and ceil(3n / 4), stated by their defining inequalities
FloorQuarter(n) == CHOOSE k \in 0..n : 4 * k <= n /\ n < 4 * (k + 1)
CeilThreeQuarters(n) == CHOOSE u \in 0..n : 4 * (u - 1) < 3 * n /\ 3 * n <= 4 * u

\* the elements of the ascending sample at the 0-based indices
\* floor(n/4) <= i < ceil(3n/4) (thousandths)
InterquartileSlice(vs) ==
    LET s == Ascending(vs)
        n == Len(vs)
    IN  SubSeq(s, FloorQuarter(n) + 1, CeilThreeQuarters(n))

\* calculate_iqm_iop has returned for an array a validated sample can be
IqmOfSample ==
    pc \in {"calculate_iqm_iop", "calculate_mean_iop"} /\ DecimalSample(arg)

\* C13 as claimed: IQM IOP is the mean of the interquartile slice, which
\* leaves out floor(n/4) values at each end and is not empty.
C13_Original ==
    IqmOfSample =>
        LET n     == Len(arg)
            slice == InterquartileSlice(View(arg))
        IN  /\ Len(slice) = n - 2 * FloorQuarter(n)
            /\ Len(slice) > 0
            /\ Milli(results.iqm_iop) * Len(slice) = SumOf(slice)

\* C13 as amended: IQM IOP is the mean of the interquartile slice rounded
\* to one decimal; the slice leaves out floor(n/4) values at each end of the
\* ascending sample, and the mean of the whole sample is not used while the
\* slice has an element.
C13_InterquartileMeanRounded ==
    IqmOfSample =>
        LET n     == Len(arg)
            slice == InterquartileSlice(View(arg))
        IN  /\ Len(slice) = n - 2 * FloorQuarter(n)
            /\ Len(slice) > 0
            /\ View(iqr_data(arg)) = slice
            /\ IsRounded(Milli(results.iqm_iop), SumOf(slice), Len(slice), Step(1))
            /\ results.iqm_iop = D(Milli(results.iqm_iop))

C13_Witness ==
    /\ pc = "calculate_mean_iop"
    /\ arg = Sample(<<12000, 12000, 12340, 12340, 12340, 20000, 20000, 20000>>)
    /\ InterquartileSlice(View(arg)) = <<12340, 12340, 12340, 20000>>
    /\ results.iqm_iop = D(14300)
    /\ results.mean_iop # results.iqm_iop

\* four times the percentile of rank k/4 of the ascending sample s: the
\* position k * (n - 1) / 4 lies between the order statistics at its floor
\* and its ceiling (0-based), and the value is interpolated linearly
FourTimesQuartile(s, k) ==
    LET n     == Len(s)
        floor == (k * (n - 1)) \div 4
        rest  == (k * (n - 1)) % 4                 \* quarters above the floor
        ceil  == IF rest = 0 THEN floor ELSE floor + 1
    IN  4 * s[floor + 1] + rest * (s[ceil + 1] - s[floor + 1])

\* twice the median of the ascending sample s
TwiceMedian(s) ==
    LET n == Len(s)
    IN  IF n % 2 = 1 THEN 2 * s[(n + 1) \div 2]
        ELSE s[n \div 2] + s[n \div 2 + 1]

\* sixteen times (Q1 + 2 * median + Q3) / 4
SixteenTimesTrimean(vs) ==
    LET s == Ascending(vs)
    IN  FourTimesQuartile(s, 1) + 4 * TwiceMedian(s) + FourTimesQuartile(s, 3)

\* C14 as claimed: Trimean IOP is (Q1 + 2 * median + Q3) / 4, with Q1 and
\* Q3 interpolated linearly at the positions (n-1)/4 and 3(n-1)/4.
C14_Original ==
    (results # NoResults /\ DecimalSample(measurements)) =>
        16 * Milli(results.trimean_iop) = SixteenTimesTrimean(View(measurements))

\* C14 as amended: Trimean IOP is (Q1 + 2 * median + Q3) / 4 rounded to one
\* decimal, with Q1 and Q3 interpolated linearly, by one and the same rule,
\* between the order statistics around the positions (n-1)/4 and 3(n-1)/4,
\* and the median the middle element or the mean of the two middle ones.
C14_TrimeanRounded ==
    (results # NoResults /\ DecimalSample(measurements)) =>
        /\ IsRounded(Milli(results.trimean_iop),
                     SixteenTimesTrimean(View(measurements)), 16, Step(1))
        /\ results.trimean_iop = D(Milli(results.trimean_iop))

C14_Witness ==
    /\ pc = "calculated"
    /\ measurements = Sample(<<30000, 24000, 21000, 10000, 8000, 6000>>)
    /\ FourTimesQuartile(View(calc_measurements), 1) = 34000
    /\ FourTimesQuartile(View(calc_measurements), 3) = 93000
    /\ TwiceMedian(View(calc_measurements)) = 31000
    /\ results.trimean_iop = D(15700)

\* the fields of a result record that are floats
FloatFields == ResultFields \ {"n_measurements"}

\* C15: on the sample of a constructed calculator no estimator and no
\* dispersion function fails: the divisor n - 2 of Safe IOP is at least 1,
\* the divisor n - 1 of the standard deviation at least 2, every weight of
\* the weighted mean is in (0, 1], so that their sum is positive, the
\* indices 1 and n - 2 read by the winsorized mean and the bounds of the
\* IQM slice are within the array, and every estimate is a number.
C15_Original ==
    Constructed =>
        LET s == calc_measurements
            n == calc_n
            w == weights(s)
        IN  /\ n = Len(s)
            /\ n - 2 >= 1
            /\ n - 1 >= 2
            /\ \A i \in 1..n : FGt(w[i], FromInt(0)) /\ FLe(w[i], One)
            /\ FGt(np_sum(w), FromInt(0))
            /\ {ItemAt(s, 1), ItemAt(s, -2)} \subseteq 1..n
            /\ Len(iqr_data(s)) >= 1 /\ Len(iqr_data(s)) <= n
            /\ results # NoResults =>
                  \A f \in FloatFields : results[f].c = "fin"

\* every call of a method returned what its first call returned
SameAsFirst(r) ==
    \A m \in Methods : \A i \in 1..Len(r[m]) : r[m][i] = r[m][1]

\* C16: a call of a method of a constructed calculator leaves the stored
\* sample (its values, their order, and n) and the list of the caller as
\* they were, and returns what the first call of that method returned.
C16_ReadOnly ==
    [][pc = "constructed" =>
          /\ calc_measurements' = calc_measurements
          /\ calc_n' = calc_n
          /\ measurements' = measurements
          /\ SameAsFirst(returned')]_vars

C16_Witness ==
    /\ pc = "constructed"
    /\ measurements = Sample(<<12000, 14000, 13000, 15000, 12000>>)
    /\ calc_measurements = Sample(<<12000, 12000, 13000, 14000, 15000>>)
    /\ returned["calculate_safe_iop"] = <<D(13000), D(13000)>>
    /\ returned["calculate_winsorized_iop"] = <<D(13000)>>

\* C17 as claimed: the variability of a result record is max - min of the
\* sample and equals max_iop - min_iop of the record; the confidence label
\* is the label of this variability.
C17_Original ==
    (results # NoResults /\ DecimalSample(measurements)) =>
        LET vs == View(measurements)
        IN  /\ Milli(results.variability) = MaxOf(vs) - MinOf(vs)
            /\ Milli(results.variability)
                  = Milli(results.max_iop) - Milli(results.min_iop)
            /\ confidence # "" => IsConfidenceOf(confidence, results.variability)

\* C17 as amended: the variability of a result record is max - min of the
\* sample rounded to one decimal; it equals max - min and max_iop - min_iop
\* when every value of the sample is a multiple of 0.1 mmHg, and is within
\* 0.1 mmHg of max_iop - min_iop otherwise, these two being rounded
\* separately; the confidence label is the label of this variability.
C17_VariabilityRounded ==
    (results # NoResults /\ DecimalSample(measurements)) =>
        LET vs == View(measurements)
            d  == MaxOf(vs) - MinOf(vs)
            v  == Milli(results.variability)
            r  == Milli(results.max_iop) - Milli(results.min_iop)
        IN  /\ IsRounded(v, d, 1, Step(1))
            /\ results.variability = D(v)
            /\ AllTenths(vs) => v = d /\ v = r
            /\ Abs(v - r) <= Step(1)
            /\ confidence # "" => IsConfidenceOf(confidence, results.variability)

C17_Witness ==
    /\ pc = "done"
    /\ measurements = Sample(<<10040, 12080, 11000>>)
    /\ results.variability = D(2000)
    /\ results.max_iop = D(12100)
    /\ results.min_iop = D(10000)
    /\ confidence = "Excellent measurement consistency - High confidence"

\* C18: validation reports one error, chosen in a fixed order.  A piece
\* that float() refuses gives the parse error wherever it stands, also
\* after a value out of range; otherwise a value below 0 or above 100 gives
\* the range error, for the first such value of the text, also when fewer
\* than 3 values were given; the count error is left for the texts whose
\* pieces all parse to values that are not out of range.
C18_ErrorPrecedence ==
    ValidationRan =>
        LET ps         == Pieces(iop_input)
            vals       == PieceValues(iop_input, python)
            unparsable == {i \in 1..Len(ps) : ~Float(ps[i], python).ok}
            offending  == Offending(vals)
        IN  /\ error.kind \in {"none", "no_values", "format", "range", "count"}
            /\ unparsable # {} => error = Message("format", FZero(0), 0)
            /\ (unparsable = {} /\ offending # {}) =>
                  error = Message("range", vals[Least(offending)], 0)
            /\ error.kind = "count" =>
                  /\ unparsable = {}
                  /\ offending = {}
                  /\ error.n = Len(ps)
                  /\ Len(ps) < 3
            /\ error # NoError =>
                  /\ pc = "done"
                  /\ displayed = [view |-> "error", message |-> error]
                  /\ measurements = <<>>

C18_Witness ==
    /\ pc = "done"
    /\ error.kind = "format"
    /\ Pieces(iop_input) = <<Codes("150"), Codes("abc")>>

SevenLabels ==
    {"Severe Hypotony", "Moderate Hypotony", "Mild Hypotony", "Normal Range",
     "Borderline Elevated", "Elevated", "Severely Elevated"}

\* no range of the table holds the value: the loop of interpret_iop ends
\* without a return and the statement after it is executed
TakesDefaultBranch(v) ==
    \A i \in 1..Len(CLINICAL_RANGES) :
        ~(/\ FLe(FromInt(CLINICAL_RANGES[i].min_val), v)
          /\ FLt(v, FromInt(CLINICAL_RANGES[i].max_val)))

\* C19: interpret_iop returns one of the seven labels for every number; the
\* numbers no range of the table holds are the v < 0 and the v >= 100, they
\* take the default branch and are labelled Severely Elevated; the Safe IOP
\* of a validated sample takes the default branch only when it is exactly
\* 100.
C19_Original ==
    (pc \in {"interpreted", "assessed", "done"} /\ results # NoResults) =>
        /\ interpretation \in SevenLabels
        /\ TakesDefaultBranch(results.safe_iop)
              <=> (FLt(results.safe_iop, FromInt(0))
                      \/ FGe(results.safe_iop, FromInt(100)))
        /\ TakesDefaultBranch(results.safe_iop) =>
              /\ results.safe_iop = FromInt(100)
              /\ interpretation = "Severely Elevated"

\* C20: for every array of n >= 1 values the slice
\* sorted_data[floor(n/4) : ceil(3n/4)] of calculate_iqm_iop has at least
\* one element, so the branch that falls back to the mean of the whole
\* array is not taken; for n = 3 the slice is the whole array and the IQM
\* IOP equals the Mean IOP.
C20_SliceNeverEmpty ==
    /\ pc \in {"calculate_iqm_iop", "calculate_mean_iop"} =>
          /\ Len(arg) >= 1
          /\ Len(iqr_data(arg)) >= 1
          /\ Len(iqr_data(arg)) = CeilThreeQuarters(Len(arg)) - FloorQuarter(Len(arg))
          /\ Len(arg) = 3 => iqr_data(arg) = arg
    /\ (pc = "calculate_mean_iop" /\ Len(arg) = 3) =>
          results.iqm_iop = results.mean_iop

C20_Witness ==
    /\ pc = "calculate_mean_iop"
    /\ arg = Sample(<<12000, 12340, 20000>>)
    /\ iqr_data(arg) = arg
    /\ results.iqm_iop = D(14800)
    /\ results.mean_iop = D(14800)

\* lower ends of the categories above the first one (mmHg)
Boundaries == {CategoryTable[i].lo : i \in 2..Len(CategoryTable)}

\* the boundaries b that the float x is below by 0.05 mmHg at most:
\* b - 0.05 <= x < b, b - 0.05 being the float written so
JustBelow(x) ==
    {b \in Boundaries : FGe(x, D(b * 1000 - 50)) /\ FLt(x, FromInt(b))}

\* C21: the category shown with a result is the category of the record's
\* safe_iop field, the trimmed mean after rounding to one decimal: the
\* number shown and the category shown agree with the interval table, and
\* a trimmed mean from 0.05 mmHg below a boundary up to the boundary
\* (b - 0.05 <= x < b for the unrounded float x) is shown as the boundary
\* and placed in the category above it.  The number shown lies in exactly
\* one interval of the table when the sample is of numbers in [0, 100],
\* and in none when it is NaN.
C21_CategoryOfRounded ==
    /\ pc \in {"interpreted", "assessed", "done"} =>
          /\ \A i \in CategoriesOf(results.safe_iop) :
                interpretation = CategoryTable[i].label
          /\ ValidSample(measurements) =>
                IsCategoryOf(interpretation, results.safe_iop)
    /\ (displayed.view = "results" /\ DecimalSample(measurements)) =>
          LET num == TrimmedSum(View(measurements))
              den == Len(measurements) - 2
              e   == Milli(displayed.safe_iop)
          IN  /\ displayed.safe_iop = results.safe_iop
              /\ displayed.interpretation = interpretation
              /\ IsRounded(e, num, den, Step(1))
              /\ e % Step(1) = 0
              /\ displayed.safe_iop = D(e)
              /\ IsCategoryOf(displayed.interpretation, displayed.safe_iop)
              /\ \A b \in Boundaries :
                    (2 * num > den * (2 * b * 1000 - Step(1)) /\ num < den * b * 1000) =>
                        /\ displayed.safe_iop = FromInt(b)
                        /\ IsCategoryOf(displayed.interpretation, FromInt(b))
    /\ displayed.view = "results" =>
          \A b \in JustBelow(trimmed_mean(calc_measurements)) :
              /\ displayed.safe_iop = FromInt(b)
              /\ IsCategoryOf(displayed.interpretation, FromInt(b))

C21_Witness ==
    /\ displayed.view = "results"
    /\ measurements = Sample(<<20950, 55, 21077>>)
    /\ trimmed_mean(calc_measurements) = D(20950)
    /\ IsCategoryOf("Normal Range", D(20950))
    /\ displayed.safe_iop = FromInt(21)
    /\ displayed.interpretation = "Borderline Elevated"

====
